---------------------------- MODULE Spec2Model ----------------------------
(***************************************************************************)
(* State-machine model of the coordination core of aws-lambda-fsm:         *)
(*   - the fencing lease (acquire_lease / release_lease) in its three      *)
(*     dialects (memcached CAS, Redis WATCH/MULTI/EXEC, DynamoDB           *)
(*     conditional update) on the lease key of one correlation id;         *)
(*   - the per-record dispatch pipeline built on top of it.                *)
(* The aws module itself is exercised through tests/aws_lambda_fsm/        *)
(* test_aws.py, which fixes the backend requests each operation issues.    *)
(***************************************************************************)
EXTENDS Integers, Naturals, Sequences, FiniteSets, TLC

(***************************************************************************)
(* Program constants and model bounds                                      *)
(***************************************************************************)
\* constants.py: LEASE_DATA.LEASE_TIMEOUT
LEASE_TIMEOUT == 60
\* the clock value the lease tests start from (mock_time.time.return_value)
T0 == 999
\* TTL of the value written by a memcached release (cas(key, None, time=1))
RELEASE_TTL == 1

\* number of concurrent invocations
NumInv == 2
\* largest steps value of an envelope in the lease model
MaxSteps == 1
\* largest retries value of an envelope in the lease model
MaxRetries == 2
\* largest fence the document store hands out
MaxFence == 3
\* clock granularity and horizon
TickSize == 60
MaxElapsed == 120
\* number of API calls of the sequential lease scenario
MaxCalls == 5
\* constants.py: DEFAULT_MAX_RETRIES
DEFAULT_MAX_RETRIES == 5
\* the step whose target state is final (nothing is emitted after it)
LastStep == 1
\* backend failures, action failures and worker kills injected in one run
MaxFaults == 2
\* deliveries of an envelope the runtime repeats
MaxRedeliveries == 1
\* calls of the aws API made in one run of the API model
MaxApiCalls == 2
\* cap of the retry backoff, in clock units
MaxBackoff == 4
\* how long after run_at the sweeper may come by
MaxLate == 1

Inv == 1..NumInv
Owners == (1..MaxSteps) \X (1..MaxRetries)
Dialects == {"memcache", "redis", "dynamodb"}
Null == -1

(***************************************************************************)
(* Return values of acquire_lease / release_lease.                         *)
(*   fence n     the 'fence' attribute returned by the document store      *)
(*   true/false  result of the cache compare-and-set, or False             *)
(*   conn_error  the value 0                                               *)
(***************************************************************************)
R(kind, val) == [kind |-> kind, val |-> val]
RFence(n) == R("fence", n)
RTrue == R("true", 0)
RFalse == R("false", 0)
RConnError == R("conn_error", 0)
RNone == R("none", 0)
IsSuccess(res) == res.kind \in {"fence", "true"}

\* fence tokens a caller may present to release_lease
Fences == {RFence(n) : n \in 1..MaxFence} \cup {RTrue}

(***************************************************************************)
(* The lease record stored under the key 'lease-<correlation_id>'.         *)
(* Cache dialects store the string "steps-retries-expires" with a TTL;     *)
(* the document store keeps lease_state, fence, expires, steps, retries.   *)
(***************************************************************************)
LeaseRec(st, f, e, s, r, ttl) ==
    [lease_state |-> st, fence |-> f, expires |-> e, steps |-> s, retries |-> r, ttl |-> ttl]
AbsentRec == LeaseRec("absent", 0, Null, Null, Null, Null)

VARIABLES
    dialect,    \* backend kind of the cache ARN
    now,        \* time.time()
    rec,        \* the stored lease record
    envelope,   \* envelope[i] = <<steps, retries>> of invocation i
    call,       \* the lease call invocation i has in flight
    ret,        \* the lease call that is returning to its caller
    held,       \* history: expiry of the lease each invocation acquired (0: none)
    ownerHeld,  \* history: expiry of the lease each (steps, retries) acquired (0: none)
    lastAcq,    \* history: the most recent successful acquire_lease
    granted,    \* history: fences handed out so far
    hist,       \* history: results of the calls of the sequential scenario
    rec2,       \* the lease record on the secondary cache
    pending,    \* envelopes <<steps, retries>> on the stream, not yet delivered
    seen,       \* envelopes the runtime has delivered at least once
    retry_store,\* payloads held by the retry backend
    idem,       \* idempotency records: steps |-> retries of the writer
    checkpoint, \* steps for which store_checkpoint has stored a checkpoint
    sentOn,     \* history: <<steps, side>> of the envelopes put on a stream
    executed,   \* history: how often the actions of each step have run
    finished,   \* history: steps whose actions have run to the end
    metrics,    \* the error counters
    run,        \* run[w]: the pipeline run of worker w
    faults,     \* failures injected so far
    redelivered,\* repeated deliveries so far
    max_retries,\* the machine's max_retries
    retry_log,  \* history: the retry records written, in order
    writes,     \* writes[b]: requests that changed backend b = <<role, side>>
    api,        \* the last two calls of the aws API, with their outcome
    ncalls,     \* number of API calls made
    started,    \* history: the arguments of the last call of the client
    requests,   \* the dispatch requests the last call of the client made
    uuids,      \* number of uuid4 values drawn so far
    chaos,      \* the ChaosConnection: its service name and its chaos rules
    intercepted,\* the method call the ChaosConnection is returning from
    settings,   \* the configured sources: key |-> its primary and secondary ARN
    validated_config, \* the process-local flag of validate_config
    validation, \* history: the calls of validate_config, the checks and the log
    rec_cache,  \* side by side: the lease record of the cache dialect
    side_by_side, \* side by side: the last call and its value in both dialects
    arn_string, \* the argument of get_arn_from_arn_string
    parsed,     \* the Arn it returned
    retry_table,\* the items of the retry table of the document store
    retry_call, \* the last call of start_retries / stop_retries on the table
    partitions, \* the partition each correlation id hashes to
    interp,     \* the interpreter step: its position, the actions fired, the events
    sqs_urls,   \* settings.SQS_URLS: queue ARN |-> the configured URL
    sqs_backend,\* the QueueUrl get_queue_url answers at present, per queue ARN
    sqs_cache,  \* the process-local attribute url_for_<arn>, per queue ARN
    sqs_call,   \* the last call of _get_sqs_queue_url
    delay_call  \* the last message sent to a queue, with its DelaySeconds

leaseVars == <<dialect, now, rec, envelope, call, ret, held, ownerHeld, lastAcq, granted, hist>>
clientVars == <<started, requests, uuids>>
chaosVars == <<chaos, intercepted>>
configVars == <<settings, validated_config, validation>>
dialectVars == <<rec_cache, side_by_side>>
arnVars == <<arn_string, parsed>>
retryTableVars == <<retry_table, retry_call, partitions>>
interpVars == <<interp>>
sqsVars == <<sqs_urls, sqs_backend, sqs_cache, sqs_call>>
delayVars == <<delay_call>>
awsVars == <<retryTableVars, interpVars, sqsVars, delayVars>>
libVars == <<clientVars, chaosVars, configVars, dialectVars, arnVars, awsVars>>
pipeVars == <<rec2, pending, seen, retry_store, idem, checkpoint, sentOn, executed,
              finished, metrics, run, faults, redelivered, max_retries, retry_log,
              writes, api, ncalls, libVars>>
vars == <<dialect, now, rec, envelope, call, ret, held, ownerHeld, lastAcq, granted, hist,
          rec2, pending, seen, retry_store, idem, checkpoint, sentOn, executed,
          finished, metrics, run, faults, redelivered, max_retries, retry_log,
          writes, api, ncalls, started, requests, uuids, chaos, intercepted,
          settings, validated_config, validation, rec_cache, side_by_side,
          arn_string, parsed, retry_table, retry_call, partitions,
          interp, sqs_urls, sqs_backend, sqs_cache, sqs_call, delay_call>>

IdleCall == [pc |-> "idle", t |-> 0, f |-> RNone, obs |-> AbsentRec, stale |-> FALSE]
NoRet == [inv |-> 0, op |-> "none", steps |-> Null, retries |-> Null,
          f |-> RNone, t |-> 0, obs |-> AbsentRec, io |-> FALSE, stale |-> FALSE,
          result |-> RNone]
NotHeld == Null
NoAcq == [steps |-> Null, retries |-> Null, result |-> RNone]

Ret(i, op, f, t, obs, io, stale, result) ==
    [inv |-> i, op |-> op,
     steps |-> envelope[i][1], retries |-> envelope[i][2],
     f |-> f, t |-> t, obs |-> obs, io |-> io, stale |-> stale, result |-> result]

(***************************************************************************)
(* Document-store dialect: one conditional update_item per call.           *)
(***************************************************************************)
\* variants of the acquire condition: without the comparison of the owner,
\* with 'expires <= :t', without the re-acquire clause, without the expiry clause
acquire_condition_dynamodb_any_owner(item, s, r, t) ==
    \/ item.lease_state = "absent"
    \/ item.lease_state = "open"
    \/ (item.expires # Null /\ item.expires < t)
    \/ item.lease_state = "leased"

acquire_condition_dynamodb_expires_le(item, s, r, t) ==
    \/ item.lease_state = "absent"
    \/ item.lease_state = "open"
    \/ (item.expires # Null /\ item.expires <= t)
    \/ (item.lease_state = "leased" /\ item.steps = s /\ item.retries = r)

acquire_condition_dynamodb_no_reacquire(item, s, r, t) ==
    \/ item.lease_state = "absent"
    \/ item.lease_state = "open"
    \/ (item.expires # Null /\ item.expires < t)

acquire_condition_dynamodb_no_expiry(item, s, r, t) ==
    \/ item.lease_state = "absent"
    \/ item.lease_state = "open"
    \/ (item.lease_state = "leased" /\ item.steps = s /\ item.retries = r)

\* ConditionExpression of acquire:
\*   attribute_not_exists(lease_state) OR lease_state = :o OR expires < :t
\*   OR (lease_state = :l AND steps = :s AND retries = :r)
\* (a comparison with a missing or NULL attribute is false)
acquire_condition_dynamodb(item, s, r, t) ==
    \/ item.lease_state = "absent"
    \/ item.lease_state = "open"
    \/ (item.expires # Null /\ item.expires < t)
    \/ (item.lease_state = "leased" /\ item.steps = s /\ item.retries = r)

\* variant of the acquire update that leaves the fence as it is
acquire_update_dynamodb_same_fence(item, s, r, t) ==
    LeaseRec("leased", item.fence, t + LEASE_TIMEOUT, s, r, Null)

\* UpdateExpression of acquire:
\*   SET fence = if_not_exists(fence, :z) + :f, expires = :e, lease_state = :l,
\*       steps = :s, retries = :r        with :e = now + timeout
acquire_update_dynamodb(item, s, r, t) ==
    LeaseRec("leased", item.fence + 1, t + LEASE_TIMEOUT, s, r, Null)

\* variants of the release condition: without the fence, without the owner
release_condition_dynamodb_no_fence(item, s, r, f) ==
    /\ item.lease_state = "leased"
    /\ item.steps = s
    /\ item.retries = r

release_condition_dynamodb_any_owner(item, s, r, f) ==
    /\ item.lease_state = "leased"
    /\ f.kind = "fence"
    /\ item.fence = f.val

\* ConditionExpression of release:
\*   lease_state = :l AND steps = :s AND retries = :r AND fence = :f
release_condition_dynamodb(item, s, r, f) ==
    /\ item.lease_state = "leased"
    /\ item.steps = s
    /\ item.retries = r
    /\ f.kind = "fence"
    /\ item.fence = f.val

\* variant of the release update that leaves the lease state as it is
release_update_dynamodb_keeps_lease(item) ==
    LeaseRec(item.lease_state, item.fence, item.expires, item.steps, item.retries, Null)

\* variant of the release update that opens the lease and clears nothing
release_update_dynamodb_keeps_owner(item) ==
    LeaseRec("open", item.fence, item.expires, item.steps, item.retries, Null)

\* UpdateExpression of release:
\*   SET lease_state = :o, steps = :null, retries = :null, expires = :null
release_update_dynamodb(item) ==
    LeaseRec("open", item.fence, Null, Null, Null, Null)

(***************************************************************************)
(* Cache dialects: read the key (gets / WATCH+GET), decide, then write     *)
(* conditionally (cas / EXEC).                                             *)
(***************************************************************************)
\* variant of the acquire test that never falls through on a leased key
acquire_available_cache_any_owner(value, s, r, t) ==
    \/ value.lease_state = "absent"
    \/ value.expires < t
    \/ value.lease_state = "leased"

\* acquire goes on to the conditional write when there is no lease holder,
\* the lease has expired, or the caller owns it; otherwise it falls through
\* and returns False without writing
acquire_available_cache(value, s, r, t) ==
    \/ value.lease_state = "absent"
    \/ value.expires < t
    \/ (value.steps = s /\ value.retries = r)

\* the value "steps-retries-expires" written with time=LEASE_TIMEOUT
acquire_value_cache(s, r, t, wt) ==
    LeaseRec("leased", 0, t + LEASE_TIMEOUT, s, r, wt + LEASE_TIMEOUT)

\* variant of the release test that does not look at the owner
release_owned_cache_any_owner(value, s, r) ==
    value.lease_state = "leased"

\* release goes on to the conditional write only when the stored value names
\* the caller's (steps, retries); the fence argument is not looked at
release_owned_cache(value, s, r) ==
    /\ value.lease_state = "leased"
    /\ value.steps = s
    /\ value.retries = r

\* what a read of the key returns: the stored value, without its TTL
Value(item) == [item EXCEPT !.ttl = Null]

\* variant of the conditional write that is applied whatever happened
\* since the read
cas_applied_blind(stale) == TRUE

\* the conditional write is applied iff nobody wrote the key since the read
cas_applied(stale) == ~stale

\* a write to the key invalidates the CAS token / WATCH of every other reader
Invalidate(c, i) ==
    [j \in Inv |-> IF j = i THEN IdleCall
                   ELSE IF c[j].pc = "idle" THEN c[j]
                   ELSE [c[j] EXCEPT !.stale = TRUE]]

(***************************************************************************)
(* History bookkeeping                                                     *)
(***************************************************************************)
HeldAfterAcquire(i, e) == [held EXCEPT ![i] = e]
HeldAfterRelease(i) == [held EXCEPT ![i] = NotHeld]
OwnerAfterAcquire(i, e) == [ownerHeld EXCEPT ![envelope[i]] = e]
OwnerAfterRelease(i) == [ownerHeld EXCEPT ![envelope[i]] = NotHeld]

\* bookkeeping of a completed acquire_lease
AcquireDone(i, t, obs, io, stale, result) ==
    /\ ret' = Ret(i, "acquire", RNone, t, obs, io, stale, result)
    /\ IF IsSuccess(result)
       THEN /\ held' = HeldAfterAcquire(i, t + LEASE_TIMEOUT)
            /\ ownerHeld' = OwnerAfterAcquire(i, t + LEASE_TIMEOUT)
            /\ lastAcq' = [steps |-> envelope[i][1], retries |-> envelope[i][2], result |-> result]
            /\ granted' = IF result.kind = "fence" THEN granted \cup {result.val} ELSE granted
       ELSE UNCHANGED <<held, ownerHeld, lastAcq, granted>>

\* bookkeeping of a completed release_lease
ReleaseDone(i, f, t, obs, io, stale, result) ==
    /\ ret' = Ret(i, "release", f, t, obs, io, stale, result)
    /\ IF IsSuccess(result)
       THEN /\ held' = HeldAfterRelease(i)
            /\ ownerHeld' = OwnerAfterRelease(i)
       ELSE UNCHANGED <<held, ownerHeld>>
    /\ UNCHANGED <<lastAcq, granted>>

(***************************************************************************)
(* Lease operations                                                        *)
(***************************************************************************)
\* acquire_lease on a document-store cache ARN
AcquireDynamodb(i) ==
    /\ ret = NoRet
    /\ dialect = "dynamodb"
    /\ call[i].pc = "idle"
    /\ rec.fence < MaxFence
    /\ \E io \in BOOLEAN :
        LET s == envelope[i][1]
            r == envelope[i][2]
            ok == acquire_condition_dynamodb(rec, s, r, now)
            new == acquire_update_dynamodb(rec, s, r, now)
        IN  /\ rec' = IF ~io /\ ok THEN new ELSE rec
            /\ AcquireDone(i, now, rec, io, FALSE,
                           IF io THEN RConnError
                           ELSE IF ok THEN RFence(new.fence) ELSE RFalse)
    /\ UNCHANGED <<dialect, now, envelope, call>>

\* release_lease on a document-store cache ARN
ReleaseDynamodb(i, f) ==
    /\ ret = NoRet
    /\ dialect = "dynamodb"
    /\ call[i].pc = "idle"
    /\ \E io \in BOOLEAN :
        LET s == envelope[i][1]
            r == envelope[i][2]
            ok == release_condition_dynamodb(rec, s, r, f)
        IN  /\ rec' = IF ~io /\ ok THEN release_update_dynamodb(rec) ELSE rec
            /\ ReleaseDone(i, f, now, rec, io, FALSE,
                           IF io THEN RConnError ELSE IF ok THEN RTrue ELSE RFalse)
    /\ UNCHANGED <<dialect, now, envelope, call>>

\* acquire_lease on a cache ARN, up to the read of the key
AcquireCacheRead(i) ==
    /\ ret = NoRet
    /\ dialect \in {"memcache", "redis"}
    /\ call[i].pc = "idle"
    /\ LET s == envelope[i][1]
           r == envelope[i][2]
       IN IF acquire_available_cache(rec, s, r, now)
          THEN /\ call' = [call EXCEPT ![i] = [pc |-> "acq_cas", t |-> now, f |-> RNone,
                                               obs |-> Value(rec), stale |-> FALSE]]
               /\ UNCHANGED <<ret, held, ownerHeld, lastAcq, granted>>
          ELSE /\ call' = call
               /\ AcquireDone(i, now, Value(rec), FALSE, FALSE, RFalse)
    /\ UNCHANGED <<dialect, now, rec, envelope>>

\* acquire_lease on a cache ARN, the conditional write
AcquireCacheWrite(i) ==
    /\ ret = NoRet
    /\ call[i].pc = "acq_cas"
    /\ \E io \in BOOLEAN :
        LET c == call[i]
            applied == ~io /\ cas_applied(c.stale)
        IN  /\ rec' = IF applied
                      THEN acquire_value_cache(envelope[i][1], envelope[i][2], c.t, now)
                      ELSE rec
            /\ call' = IF applied THEN Invalidate(call, i)
                       ELSE [call EXCEPT ![i] = IdleCall]
            /\ AcquireDone(i, c.t, c.obs, io, c.stale,
                           IF io THEN RConnError ELSE IF applied THEN RTrue ELSE RFalse)
    /\ UNCHANGED <<dialect, now, envelope>>

\* release_lease on a cache ARN, up to the read of the key
ReleaseCacheRead(i, f) ==
    /\ ret = NoRet
    /\ dialect \in {"memcache", "redis"}
    /\ call[i].pc = "idle"
    /\ IF release_owned_cache(rec, envelope[i][1], envelope[i][2])
       THEN /\ call' = [call EXCEPT ![i] = [pc |-> "rel_cas", t |-> 0, f |-> f,
                                            obs |-> Value(rec), stale |-> FALSE]]
            /\ UNCHANGED <<ret, held, ownerHeld, lastAcq, granted>>
       ELSE /\ call' = call
            /\ ReleaseDone(i, f, 0, Value(rec), FALSE, FALSE, RFalse)
    /\ UNCHANGED <<dialect, now, rec, envelope>>

\* release_lease on a cache ARN, the conditional write
\* (memcached: cas(key, None, time=1); Redis: delete(key))
ReleaseCacheWrite(i) ==
    /\ ret = NoRet
    /\ call[i].pc = "rel_cas"
    /\ \E io \in BOOLEAN :
        LET c == call[i]
            applied == ~io /\ cas_applied(c.stale)
        IN  /\ rec' = IF applied
                      THEN [AbsentRec EXCEPT !.ttl = IF dialect = "memcache"
                                                     THEN now + RELEASE_TTL ELSE Null]
                      ELSE rec
            /\ call' = IF applied THEN Invalidate(call, i)
                       ELSE [call EXCEPT ![i] = IdleCall]
            /\ ReleaseDone(i, c.f, c.t, c.obs, io, c.stale,
                           IF io THEN RConnError ELSE IF applied THEN RTrue ELSE RFalse)
    /\ UNCHANGED <<dialect, now, envelope>>

\* the cache drops a key whose TTL has run out
Evict ==
    /\ ret = NoRet
    /\ dialect \in {"memcache", "redis"}
    /\ rec.ttl # Null
    /\ now >= rec.ttl
    /\ rec' = AbsentRec
    /\ call' = Invalidate(call, 0)
    /\ UNCHANGED <<dialect, now, envelope, ret, held, ownerHeld, lastAcq, granted>>

\* history: a lease whose expiry has been reached is no longer held
Expire(h, t) == [x \in DOMAIN h |-> IF h[x] # NotHeld /\ h[x] <= t THEN NotHeld ELSE h[x]]

\* the value reaches the caller
Return ==
    /\ ret # NoRet
    /\ ret' = NoRet
    /\ UNCHANGED <<dialect, now, rec, envelope, call, held, ownerHeld, lastAcq, granted>>

\* time passes
Tick ==
    /\ ret = NoRet
    /\ now + TickSize <= T0 + MaxElapsed
    /\ now' = now + TickSize
    /\ held' = Expire(held, now')
    /\ ownerHeld' = Expire(ownerHeld, now')
    /\ UNCHANGED <<dialect, rec, envelope, call, ret, lastAcq, granted>>

(***************************************************************************)
(* State of the dispatch pipeline before anything is delivered             *)
(***************************************************************************)
Workers == 1..NumInv
Steps == 0..LastStep
IdleRun == [pc |-> "idle", steps |-> Null, retries |-> Null, fence |-> RNone,
            lease_primary |-> TRUE, late |-> FALSE, raised |-> FALSE]
NoMetrics == [duplicate |-> 0, cache |-> 0, retry |-> 0, fatal |-> 0]

\* the backends of the failover router: a role and a side
Roles == {"stream", "retry", "checkpoint", "cache", "metrics"}
Sides == {"primary", "secondary"}
Backends == Roles \X Sides
NoBackend == <<"none", "none">>
Side(primary) == IF primary THEN "primary" ELSE "secondary"
\* no API call
NoCall == [op |-> "none", primary |-> TRUE, recovering |-> FALSE, target |-> NoBackend,
           connected |-> FALSE, up |-> <<>>, wrote |-> NoBackend, result |-> "none"]

\* Python values: None, a str, an int, a list, a dict
None == [kind |-> "null", val |-> 0]
Str(s) == [kind |-> "str", val |-> s]
Num(n) == [kind |-> "int", val |-> n]
List(items) == [kind |-> "list", val |-> items]
Dict(name) == [kind |-> "dict", val |-> name]
\* no call of the client
NotStarted == [fn |-> "none", machine_name |-> "", user_contexts |-> <<>>,
               correlation_ids |-> None, current_state |-> "", current_event |-> "",
               uuids |-> 0, ncalls |-> 0, now |-> 0]
ClientIdle ==
    /\ started = NotStarted
    /\ requests = <<>>
    /\ uuids = 0
\* no method call through the ChaosConnection
NoInterception == [scope |-> "none", draws |-> <<>>, run_draw |-> Null, fired |-> 0,
                   ran |-> 0, result |-> [how |-> "none", value |-> None]]
\* a connection without chaos rules
ChaosIdle ==
    /\ chaos = [service_name |-> "kinesis", rules |-> <<>>]
    /\ intercepted = NoInterception
\* the keys of the configured sources
ConfigKeys == Roles \cup {"environment"}
\* a source of an allowed service on the primary side, none on the secondary
DefaultSource == [required |-> TRUE, failover |-> TRUE,
                  primary |-> Str("arn_allowed"), secondary |-> None]
\* validate_config has not been called
NotValidated == [calls |-> 0, checks |-> [k \in ConfigKeys |-> 0],
                 logged |-> [k \in ConfigKeys |-> <<>>], raised |-> FALSE]
ConfigIdle ==
    /\ settings = [k \in ConfigKeys |-> DefaultSource]
    /\ validated_config = FALSE
    /\ validation = NotValidated
\* no call made side by side
NoCalls == [op |-> "none", f |-> RNone, doc |-> RNone, cache |-> RNone,
            strayed |-> FALSE]
DialectsIdle ==
    /\ rec_cache = AbsentRec
    /\ side_by_side = NoCalls
\* nothing parsed
NotParsed == [arn |-> None, partition |-> None, service |-> None, region_name |-> None,
              account_id |-> None, resource |-> None, returned |-> FALSE]
ArnIdle ==
    /\ arn_string = None
    /\ parsed = NotParsed
\* a correlation id is a str, the sequence of its characters
CorrelationIds == {<<"b">>, <<"b", "-", "1">>}
\* the partition of 'b' in the retry tests
PARTITION_OF_B == 15
\* no call made on the retry table
NoTableCall == [op |-> "none", correlation_id |-> <<>>, steps |-> Null, run_at |-> Null,
                key |-> <<>>, connected |-> FALSE, had |-> {}, n |-> 0]
RetryTableIdle ==
    /\ retry_table = {}
    /\ retry_call = NoTableCall
    /\ partitions = [c \in CorrelationIds |-> PARTITION_OF_B]
\* no interpreter step under way
NoStep == [pc |-> "idle", defined |-> {}, final |-> FALSE, fired |-> <<>>,
           deferred |-> <<>>, returned |-> None, emitted |-> <<>>]
InterpIdle == interp = NoStep
\* the queue ARNs and an attribute that is not set
QueueArns == {"queue_a", "queue_b"}
Absent == [kind |-> "absent", val |-> 0]
NoLookup == [arn |-> "none", url |-> None, from |-> "none", n |-> 0]
SqsIdle ==
    /\ sqs_urls = [a \in QueueArns |-> None]
    /\ sqs_backend = [a \in QueueArns |-> None]
    /\ sqs_cache = [a \in QueueArns |-> Absent]
    /\ sqs_call = NoLookup
\* nothing sent to a queue
NoDelay == [op |-> "none", run_at |-> 0, time |-> 0, DelaySeconds |-> 0]
DelayIdle == delay_call = NoDelay
AwsIdle ==
    /\ RetryTableIdle
    /\ InterpIdle
    /\ SqsIdle
    /\ DelayIdle
LibIdle ==
    /\ ClientIdle
    /\ ChaosIdle
    /\ ConfigIdle
    /\ DialectsIdle
    /\ ArnIdle
    /\ AwsIdle

ApiIdle ==
    /\ writes = [b \in Backends |-> 0]
    /\ api = [last |-> NoCall, prev |-> NoCall]
    /\ ncalls = 0

PipelineCoreIdle ==
    /\ rec2 = AbsentRec
    /\ pending = {}
    /\ seen = {}
    /\ retry_store = {}
    /\ idem = [n \in Steps |-> Null]
    /\ checkpoint = {}
    /\ sentOn = {}
    /\ executed = [n \in Steps |-> 0]
    /\ finished = {}
    /\ metrics = NoMetrics
    /\ run = [w \in Workers |-> IdleRun]
    /\ faults = 0
    /\ redelivered = 0
    /\ max_retries = DEFAULT_MAX_RETRIES
    /\ retry_log = <<>>
    /\ ApiIdle

PipelineIdle ==
    /\ PipelineCoreIdle
    /\ LibIdle

\* The lease code compares (steps, retries) tuples for equality only and the
\* invocations are interchangeable, so the envelopes are listed in order and
\* without gaps: the first invocation carries the first tuple, every other
\* one the tuple of its predecessor or the next tuple.
Rank(o) == Cardinality({q \in Owners : q[1] < o[1] \/ (q[1] = o[1] /\ q[2] < o[2])})

InitLease ==
    /\ dialect \in Dialects
    /\ now = T0
    /\ rec = AbsentRec
    /\ envelope \in [Inv -> Owners]
    /\ Rank(envelope[1]) = 0
    /\ \A i \in Inv \ {1} : Rank(envelope[i]) - Rank(envelope[i - 1]) \in {0, 1}
    /\ call = [i \in Inv |-> IdleCall]
    /\ ret = NoRet
    /\ held = [i \in Inv |-> NotHeld]
    /\ ownerHeld = [o \in Owners |-> NotHeld]
    /\ lastAcq = NoAcq
    /\ granted = {}
    /\ hist = <<>>
    /\ PipelineIdle

\* a lease call of some invocation takes a step
NextLease ==
    \/ (\E i \in Inv : AcquireDynamodb(i)) /\ UNCHANGED <<hist, pipeVars>>
    \/ (\E i \in Inv, f \in Fences : ReleaseDynamodb(i, f)) /\ UNCHANGED <<hist, pipeVars>>
    \/ (\E i \in Inv : AcquireCacheRead(i)) /\ UNCHANGED <<hist, pipeVars>>
    \/ (\E i \in Inv : AcquireCacheWrite(i)) /\ UNCHANGED <<hist, pipeVars>>
    \/ (\E i \in Inv, f \in Fences : ReleaseCacheRead(i, f)) /\ UNCHANGED <<hist, pipeVars>>
    \/ (\E i \in Inv : ReleaseCacheWrite(i)) /\ UNCHANGED <<hist, pipeVars>>
    \/ Evict /\ UNCHANGED <<hist, pipeVars>>
    \/ Return /\ UNCHANGED <<hist, pipeVars>>
    \/ Tick /\ UNCHANGED <<hist, pipeVars>>

SpecLease == InitLease /\ [][NextLease]_vars

(***************************************************************************)
(* The lease calls issued one after the other against the document store   *)
(* while the clock stands at 999, with the outcome of each call kept in    *)
(* hist.                                                                   *)
(***************************************************************************)
InitScenario ==
    /\ InitLease
    /\ dialect = "dynamodb"
    /\ envelope = [i \in Inv |-> <<1, 1>>]

\* what the scenario keeps of a call: its arguments, its clock and its result
HistEntry(c) == [op |-> c.op, steps |-> c.steps, retries |-> c.retries,
                 f |-> c.f, t |-> c.t, result |-> c.result]

\* the call completes without a backend failure and its outcome is recorded
Recorded ==
    /\ Len(hist) < MaxCalls
    /\ ~ret'.io
    /\ hist' = Append(hist, HistEntry(ret'))
    /\ UNCHANGED pipeVars

NextScenario ==
    \/ (\E i \in Inv : AcquireDynamodb(i)) /\ Recorded
    \/ (\E i \in Inv, f \in Fences : ReleaseDynamodb(i, f)) /\ Recorded
    \/ Return /\ UNCHANGED <<hist, pipeVars>>

SpecScenario == InitScenario /\ [][NextScenario]_vars

(***************************************************************************)
(* The dispatch pipeline: what one invocation does with one record.        *)
(* Workers run it concurrently; every backend call is a step of its own.   *)
(* The lease is kept in the document store.                                *)
(***************************************************************************)
\* a backend call, an action or a worker may fail while the budget lasts
Outcomes == IF faults < MaxFaults THEN BOOLEAN ELSE {FALSE}
\* the second of two calls, made only when the first one failed
Outcomes2(io1) == IF io1 /\ faults + 1 < MaxFaults THEN BOOLEAN ELSE {FALSE}
Cost(io) == IF io THEN 1 ELSE 0

\* start_state_machine: the envelope with steps = 0 and retries = 0
KickoffEnvelope == <<0, 0>>

InitPipeline ==
    /\ dialect = "dynamodb"
    /\ now = T0
    /\ rec = AbsentRec
    /\ envelope = [i \in Inv |-> <<1, 1>>]
    /\ call = [i \in Inv |-> IdleCall]
    /\ ret = NoRet
    /\ held = [i \in Inv |-> NotHeld]
    /\ ownerHeld = [o \in Owners |-> NotHeld]
    /\ lastAcq = NoAcq
    /\ granted = {}
    /\ hist = <<>>
    /\ rec2 = AbsentRec
    /\ pending = {KickoffEnvelope}
    /\ seen = {}
    /\ retry_store = {}
    /\ idem = [n \in Steps |-> Null]
    /\ checkpoint = {}
    /\ sentOn = {}
    /\ executed = [n \in Steps |-> 0]
    /\ finished = {}
    /\ metrics = NoMetrics
    /\ run = [w \in Workers |-> IdleRun]
    /\ faults = 0
    /\ redelivered = 0
    /\ max_retries \in {0, DEFAULT_MAX_RETRIES}
    /\ retry_log = <<>>
    /\ ApiIdle
    /\ LibIdle

Free(w) == run[w].pc \in {"idle", "killed"}
EnvelopeOf(w) == <<run[w].steps, run[w].retries>>
Goto(w, pc) == [run EXCEPT ![w].pc = pc]
EndRun(w) == [run EXCEPT ![w] = IdleRun]
Count(name) == [metrics EXCEPT ![name] = @ + 1]

\* steps 1 and 2: decode the envelope, extract (correlation_id, steps, retries)
StartRun(w, e) ==
    run' = [run EXCEPT ![w] = [pc |-> "dedupe", steps |-> e[1], retries |-> e[2],
                               fence |-> RNone, lease_primary |-> TRUE,
                               late |-> idem[e[1]] # Null, raised |-> FALSE]]

\* the runtime delivers a record of the stream to an invocation
Deliver(w, e) ==
    /\ Free(w)
    /\ e \in pending
    /\ pending' = pending \ {e}
    /\ seen' = seen \cup {e}
    /\ StartRun(w, e)
    /\ UNCHANGED <<rec, rec2, retry_store, idem, checkpoint, sentOn, executed, finished,
                   metrics, faults, redelivered>>

\* the runtime delivers a record once more
Redeliver(w, e) ==
    /\ Free(w)
    /\ e \in seen \ pending
    /\ redelivered < MaxRedeliveries
    /\ redelivered' = redelivered + 1
    /\ StartRun(w, e)
    /\ UNCHANGED <<rec, rec2, pending, seen, retry_store, idem, checkpoint, sentOn,
                   executed, finished, metrics, faults>>

\* get_message_dispatched: the value stored under 'correlation_id-steps',
\* None when there is no connection or the read fails
get_message_dispatched(store, n, io) == IF io THEN Null ELSE store[n]

\* set_message_dispatched: set 'correlation_id-steps' to
\* 'correlation_id-steps-retries'
set_message_dispatched(store, n, r) == [store EXCEPT ![n] = r]

\* step 3: a present idempotency record ends the run as a duplicate
Dedupe(w) ==
    /\ run[w].pc = "dedupe"
    /\ \E io \in Outcomes :
        /\ faults' = faults + Cost(io)
        /\ IF get_message_dispatched(idem, run[w].steps, io) # Null
           THEN /\ metrics' = Count("duplicate")
                /\ run' = EndRun(w)
           ELSE /\ metrics' = metrics
                /\ run' = Goto(w, "acquire")
    /\ UNCHANGED <<rec, rec2, pending, seen, retry_store, idem, checkpoint, sentOn,
                   executed, finished, redelivered>>

\* variants of step 4: one that goes on to release_lease after both sides
\* failed, one that tries the secondary cache after the primary said False
AcquireLease_releases_unheld(w) ==
    /\ run[w].pc = "acquire"
    /\ \E io1 \in Outcomes : \E io2 \in Outcomes2(io1) :
        LET s == run[w].steps
            r == run[w].retries
            item == IF io1 THEN rec2 ELSE rec
            ok == acquire_condition_dynamodb(item, s, r, now)
            new == acquire_update_dynamodb(item, s, r, now)
        IN  /\ faults' = faults + Cost(io1) + Cost(io2)
            /\ IF io1 /\ io2
               THEN /\ metrics' = Count("cache")
                    /\ pending' = pending \cup {EnvelopeOf(w)}
                    /\ run' = Goto(w, "release")
                    /\ UNCHANGED <<rec, rec2>>
               ELSE IF ok
               THEN /\ rec' = IF io1 THEN rec ELSE new
                    /\ rec2' = IF io1 THEN new ELSE rec2
                    /\ run' = [run EXCEPT ![w].pc = "interpret",
                                          ![w].fence = RFence(new.fence),
                                          ![w].lease_primary = ~io1]
                    /\ UNCHANGED <<metrics, pending>>
               ELSE /\ metrics' = Count("duplicate")
                    /\ run' = EndRun(w)
                    /\ UNCHANGED <<rec, rec2, pending>>
    /\ UNCHANGED <<seen, retry_store, idem, checkpoint, sentOn, executed, finished,
                   redelivered>>

AcquireLease_secondary_on_false(w) ==
    /\ run[w].pc = "acquire"
    /\ \E io1 \in Outcomes : \E io2 \in Outcomes2(io1) :
        LET s == run[w].steps
            r == run[w].retries
            item == IF io1 THEN rec2 ELSE rec
            ok == acquire_condition_dynamodb(item, s, r, now)
            new == acquire_update_dynamodb(item, s, r, now)
        IN  /\ faults' = faults + Cost(io1) + Cost(io2)
            /\ IF io1 /\ io2
               THEN /\ metrics' = Count("cache")
                    /\ pending' = pending \cup {EnvelopeOf(w)}
                    /\ run' = EndRun(w)
                    /\ UNCHANGED <<rec, rec2>>
               ELSE IF ok
               THEN /\ rec' = IF io1 THEN rec ELSE new
                    /\ rec2' = IF io1 THEN new ELSE rec2
                    /\ run' = [run EXCEPT ![w].pc = "interpret",
                                          ![w].fence = RFence(new.fence),
                                          ![w].lease_primary = ~io1]
                    /\ UNCHANGED <<metrics, pending>>
               ELSE IF acquire_condition_dynamodb(rec2, s, r, now)
               THEN /\ rec2' = acquire_update_dynamodb(rec2, s, r, now)
                    /\ run' = [run EXCEPT ![w].pc = "interpret",
                                          ![w].fence = RFence(rec2'.fence),
                                          ![w].lease_primary = FALSE]
                    /\ UNCHANGED <<rec, metrics, pending>>
               ELSE /\ metrics' = Count("duplicate")
                    /\ run' = EndRun(w)
                    /\ UNCHANGED <<rec, rec2, pending>>
    /\ UNCHANGED <<seen, retry_store, idem, checkpoint, sentOn, executed, finished,
                   redelivered>>

\* step 4: acquire_lease on the primary cache; False ends the run as a
\* duplicate; on a connection error the secondary cache is tried; when both
\* fail the record is left to the runtime's redelivery
AcquireLease(w) ==
    /\ run[w].pc = "acquire"
    /\ \E io1 \in Outcomes : \E io2 \in Outcomes2(io1) :
        LET s == run[w].steps
            r == run[w].retries
            item == IF io1 THEN rec2 ELSE rec
            ok == acquire_condition_dynamodb(item, s, r, now)
            new == acquire_update_dynamodb(item, s, r, now)
        IN  /\ faults' = faults + Cost(io1) + Cost(io2)
            /\ IF io1 /\ io2
               THEN /\ metrics' = Count("cache")
                    /\ pending' = pending \cup {EnvelopeOf(w)}
                    /\ run' = EndRun(w)
                    /\ UNCHANGED <<rec, rec2>>
               ELSE IF ok
               THEN /\ rec' = IF io1 THEN rec ELSE new
                    /\ rec2' = IF io1 THEN new ELSE rec2
                    /\ run' = [run EXCEPT ![w].pc = "interpret",
                                          ![w].fence = RFence(new.fence),
                                          ![w].lease_primary = ~io1]
                    /\ UNCHANGED <<metrics, pending>>
               ELSE /\ metrics' = Count("duplicate")
                    /\ run' = EndRun(w)
                    /\ UNCHANGED <<rec, rec2, pending>>
    /\ UNCHANGED <<seen, retry_store, idem, checkpoint, sentOn, executed, finished,
                   redelivered>>

\* step 5: the interpreter runs the actions of the step; an action may raise
RunStep(w) ==
    /\ run[w].pc = "interpret"
    /\ executed' = [executed EXCEPT ![run[w].steps] = @ + 1]
    /\ \E raised \in Outcomes :
        /\ faults' = faults + Cost(raised)
        /\ finished' = IF raised THEN finished ELSE finished \cup {run[w].steps}
        /\ run' = [run EXCEPT ![w].pc = IF raised THEN "start_retries" ELSE "set_dispatched",
                              ![w].raised = raised]
    /\ UNCHANGED <<rec, rec2, pending, seen, retry_store, idem, checkpoint, sentOn,
                   metrics, redelivered>>

\* step 6, first call: write the idempotency record; when the write fails the
\* step is abandoned
SetMessageDispatched(w) ==
    /\ run[w].pc = "set_dispatched"
    /\ \E io \in Outcomes :
        /\ faults' = faults + Cost(io)
        /\ idem' = IF io THEN idem
                   ELSE set_message_dispatched(idem, run[w].steps, run[w].retries)
        /\ run' = Goto(w, IF io THEN "release"
                          ELSE IF run[w].steps < LastStep THEN "checkpoint"
                          ELSE "stop_retries")
    /\ UNCHANGED <<rec, rec2, pending, seen, retry_store, checkpoint, sentOn, executed,
                   finished, metrics, redelivered>>

\* step 6, second call: store_checkpoint on the primary, on the secondary
\* when that fails
StoreCheckpoint(w) ==
    /\ run[w].pc = "checkpoint"
    /\ \E io1 \in Outcomes : \E io2 \in Outcomes2(io1) :
        /\ faults' = faults + Cost(io1) + Cost(io2)
        /\ checkpoint' = IF io1 /\ io2 THEN checkpoint
                         ELSE checkpoint \cup {run[w].steps}
    /\ run' = Goto(w, "send")
    /\ UNCHANGED <<rec, rec2, pending, seen, retry_store, idem, sentOn, executed,
                   finished, metrics, redelivered>>

\* variant of the emission that carries the retries over to the next step
SendNextEvent_keeps_retries(w) ==
    /\ run[w].pc = "send"
    /\ \E io1 \in Outcomes : \E io2 \in Outcomes2(io1) :
        LET next == <<run[w].steps + 1, run[w].retries>>
        IN  /\ faults' = faults + Cost(io1) + Cost(io2)
            /\ IF io1 /\ io2
               THEN /\ retry_store' = retry_store \cup {next}
                    /\ UNCHANGED <<pending, sentOn>>
               ELSE /\ pending' = pending \cup {next}
                    /\ sentOn' = sentOn \cup
                            {<<next[1], IF io1 THEN "secondary" ELSE "primary">>}
                    /\ UNCHANGED retry_store
    /\ run' = Goto(w, "stop_retries")
    /\ UNCHANGED <<rec, rec2, seen, idem, checkpoint, executed, finished, metrics,
                   redelivered>>

\* step 6, third call: send_next_event_for_dispatch to the primary stream, to
\* the secondary when that fails, to the retry source when both fail
SendNextEvent(w) ==
    /\ run[w].pc = "send"
    /\ \E io1 \in Outcomes : \E io2 \in Outcomes2(io1) :
        LET next == <<run[w].steps + 1, 0>>
        IN  /\ faults' = faults + Cost(io1) + Cost(io2)
            /\ IF io1 /\ io2
               THEN /\ retry_store' = retry_store \cup {next}
                    /\ UNCHANGED <<pending, sentOn>>
               ELSE /\ pending' = pending \cup {next}
                    /\ sentOn' = sentOn \cup
                            {<<next[1], IF io1 THEN "secondary" ELSE "primary">>}
                    /\ UNCHANGED retry_store
    /\ run' = Goto(w, "stop_retries")
    /\ UNCHANGED <<rec, rec2, seen, idem, checkpoint, executed, finished, metrics,
                   redelivered>>

\* step 6, last call: stop_retries deletes the retry record of the step
StopRetries(w) ==
    /\ run[w].pc = "stop_retries"
    /\ \E io \in Outcomes :
        /\ faults' = faults + Cost(io)
        /\ retry_store' = IF io THEN retry_store
                          ELSE {e \in retry_store : e[1] # run[w].steps}
    /\ run' = Goto(w, "release")
    /\ UNCHANGED <<rec, rec2, pending, seen, idem, checkpoint, sentOn, executed,
                   finished, metrics, redelivered>>

\* variant of step 7 that still re-enqueues at retries = max_retries
StartRetries_one_more(w) ==
    /\ run[w].pc = "start_retries"
    /\ IF run[w].retries > max_retries
       THEN /\ metrics' = Count("fatal")
            /\ UNCHANGED <<retry_store, faults>>
       ELSE \E io1 \in Outcomes : \E io2 \in Outcomes2(io1) :
            /\ faults' = faults + Cost(io1) + Cost(io2)
            /\ metrics' = Count("retry")
            /\ retry_store' =
                  IF io1 /\ io2 THEN retry_store
                  ELSE {e \in retry_store : e[1] # run[w].steps}
                           \cup {<<run[w].steps, run[w].retries + 1>>}
    /\ run' = Goto(w, "release")
    /\ UNCHANGED <<rec, rec2, pending, seen, idem, checkpoint, sentOn, executed,
                   finished, redelivered>>

\* variant of step 7 that counts the retry in the run itself
StartRetries_bumps_retries(w) ==
    /\ run[w].pc = "start_retries"
    /\ IF run[w].retries >= max_retries
       THEN /\ metrics' = Count("fatal")
            /\ UNCHANGED <<retry_store, faults>>
       ELSE \E io1 \in Outcomes : \E io2 \in Outcomes2(io1) :
            /\ faults' = faults + Cost(io1) + Cost(io2)
            /\ metrics' = Count("retry")
            /\ retry_store' =
                  IF io1 /\ io2 THEN retry_store
                  ELSE {e \in retry_store : e[1] # run[w].steps}
                           \cup {<<run[w].steps, run[w].retries + 1>>}
    /\ run' = [run EXCEPT ![w].pc = "release", ![w].retries = @ + 1]
    /\ UNCHANGED <<rec, rec2, pending, seen, idem, checkpoint, sentOn, executed,
                   finished, redelivered>>

\* step 7: start_retries on the primary, on the secondary when that fails,
\* and increment_error_counters {retry: 1}; past max_retries the envelope
\* goes to the fatal sink instead
StartRetries(w) ==
    /\ run[w].pc = "start_retries"
    /\ IF run[w].retries >= max_retries
       THEN /\ metrics' = Count("fatal")
            /\ UNCHANGED <<retry_store, faults>>
       ELSE \E io1 \in Outcomes : \E io2 \in Outcomes2(io1) :
            /\ faults' = faults + Cost(io1) + Cost(io2)
            /\ metrics' = Count("retry")
            /\ retry_store' =
                  IF io1 /\ io2 THEN retry_store
                  ELSE {e \in retry_store : e[1] # run[w].steps}
                           \cup {<<run[w].steps, run[w].retries + 1>>}
    /\ run' = Goto(w, "release")
    /\ UNCHANGED <<rec, rec2, pending, seen, idem, checkpoint, sentOn, executed,
                   finished, redelivered>>

\* step 8: release_lease on the side the lease was acquired on
ReleaseLease(w) ==
    /\ run[w].pc = "release"
    /\ \E io \in Outcomes :
        LET item == IF run[w].lease_primary THEN rec ELSE rec2
            ok == ~io /\ release_condition_dynamodb(item, run[w].steps, run[w].retries,
                                                    run[w].fence)
            new == IF ok THEN release_update_dynamodb(item) ELSE item
        IN  /\ faults' = faults + Cost(io)
            /\ rec' = IF run[w].lease_primary THEN new ELSE rec
            /\ rec2' = IF run[w].lease_primary THEN rec2 ELSE new
    /\ run' = EndRun(w)
    /\ UNCHANGED <<pending, seen, retry_store, idem, checkpoint, sentOn, executed,
                   finished, metrics, redelivered>>

\* the runtime kills the worker on timeout; the record is delivered again
Kill(w) ==
    /\ ~Free(w)
    /\ faults < MaxFaults
    /\ faults' = faults + 1
    /\ pending' = pending \cup {EnvelopeOf(w)}
    /\ run' = [run EXCEPT ![w] = [IdleRun EXCEPT !.pc = "killed"]]
    /\ UNCHANGED <<rec, rec2, seen, retry_store, idem, checkpoint, sentOn, executed,
                   finished, metrics, redelivered>>

\* the sweeper re-submits a payload of the retry backend to the stream
Sweep(e) ==
    /\ e \in retry_store
    /\ e \notin pending \cup seen
    /\ pending' = pending \cup {e}
    /\ UNCHANGED <<rec, rec2, seen, retry_store, idem, checkpoint, sentOn, executed,
                   finished, metrics, run, faults, redelivered>>

\* the variables of the lease model the pipeline leaves alone
LeaseFrame ==
    UNCHANGED <<dialect, now, envelope, call, ret, held, ownerHeld, lastAcq,
                granted, hist, max_retries, retry_log, writes, api, ncalls, libVars>>

NextPipeline ==
    \/ (\E w \in Workers : \E e \in pending : Deliver(w, e)) /\ LeaseFrame
    \/ (\E w \in Workers : \E e \in seen : Redeliver(w, e)) /\ LeaseFrame
    \/ (\E w \in Workers : Dedupe(w)) /\ LeaseFrame
    \/ (\E w \in Workers : AcquireLease(w)) /\ LeaseFrame
    \/ (\E w \in Workers : RunStep(w)) /\ LeaseFrame
    \/ (\E w \in Workers : SetMessageDispatched(w)) /\ LeaseFrame
    \/ (\E w \in Workers : StoreCheckpoint(w)) /\ LeaseFrame
    \/ (\E w \in Workers : SendNextEvent(w)) /\ LeaseFrame
    \/ (\E w \in Workers : StopRetries(w)) /\ LeaseFrame
    \/ (\E w \in Workers : StartRetries(w)) /\ LeaseFrame
    \/ (\E w \in Workers : ReleaseLease(w)) /\ LeaseFrame
    \/ (\E w \in Workers : Kill(w)) /\ LeaseFrame
    \/ (\E e \in retry_store : Sweep(e)) /\ LeaseFrame
    \/ Tick /\ UNCHANGED <<hist, pipeVars>>

SpecPipeline == InitPipeline /\ [][NextPipeline]_vars

(***************************************************************************)
(* The pipeline fed by one shard: the runtime hands the next record to an  *)
(* invocation only when the one before has returned or has been killed.    *)
(***************************************************************************)
\* no run is under way
NoRunUnderWay == \A w \in Workers : Free(w)
\* workers are interchangeable: the record goes to the first one
FirstWorker(w) == \A v \in Workers : w <= v

NextSerial ==
    \/ /\ \E w \in Workers : FirstWorker(w) /\ \E e \in pending : Deliver(w, e)
       /\ NoRunUnderWay /\ LeaseFrame
    \/ /\ \E w \in Workers : FirstWorker(w) /\ \E e \in seen : Redeliver(w, e)
       /\ NoRunUnderWay /\ LeaseFrame
    \/ (\E w \in Workers : Dedupe(w)) /\ LeaseFrame
    \/ (\E w \in Workers : AcquireLease(w)) /\ LeaseFrame
    \/ (\E w \in Workers : RunStep(w)) /\ LeaseFrame
    \/ (\E w \in Workers : SetMessageDispatched(w)) /\ LeaseFrame
    \/ (\E w \in Workers : StoreCheckpoint(w)) /\ LeaseFrame
    \/ (\E w \in Workers : SendNextEvent(w)) /\ LeaseFrame
    \/ (\E w \in Workers : StopRetries(w)) /\ LeaseFrame
    \/ (\E w \in Workers : StartRetries(w)) /\ LeaseFrame
    \/ (\E w \in Workers : ReleaseLease(w)) /\ LeaseFrame
    \/ (\E w \in Workers : Kill(w)) /\ LeaseFrame
    \/ (\E e \in retry_store : Sweep(e)) /\ LeaseFrame
    \/ Tick /\ UNCHANGED <<hist, pipeVars>>

SpecSerial == InitPipeline /\ [][NextSerial]_vars

(***************************************************************************)
(* Steps 4 and 8 of the pipeline at the level of the lease API: every      *)
(* acquire_lease and release_lease call hands back a value, and step 4     *)
(* branches on the value the call handed back.                             *)
(***************************************************************************)
\* variant that reports a backend I/O failure like a lost contention
lease_result_failure_as_false(io, ok, value) ==
    IF io THEN RFalse ELSE IF ok THEN value ELSE RFalse

\* the value of a lease call: 0 on a backend I/O failure, the value of the
\* backend on success, False when the lease is somebody else's
lease_result(io, ok, value) ==
    IF io THEN RConnError ELSE IF ok THEN value ELSE RFalse

\* the record of the lease call a worker made
LeaseCall(w, op, item, io, result) ==
    [inv |-> w, op |-> op, steps |-> run[w].steps, retries |-> run[w].retries,
     f |-> run[w].fence, t |-> now, obs |-> item, io |-> io, stale |-> FALSE,
     result |-> result]

\* step 4, one call: acquire_lease on the side the run is trying
AcquireLeaseCall(w) ==
    /\ run[w].pc = "acquire"
    /\ \E io \in Outcomes :
        LET s == run[w].steps
            r == run[w].retries
            primary == run[w].lease_primary
            item == IF primary THEN rec ELSE rec2
            ok == ~io /\ acquire_condition_dynamodb(item, s, r, now)
            new == IF ok THEN acquire_update_dynamodb(item, s, r, now) ELSE item
        IN  /\ faults' = faults + Cost(io)
            /\ rec' = IF primary THEN new ELSE rec
            /\ rec2' = IF primary THEN rec2 ELSE new
            /\ ret' = LeaseCall(w, "acquire", item, io,
                                lease_result(io, ok, RFence(new.fence)))
    /\ run' = Goto(w, "acquired")
    /\ UNCHANGED <<pending, seen, retry_store, idem, checkpoint, sentOn, executed,
                   finished, metrics, redelivered>>

\* step 4, the branch on the value of the call: a fence starts the step,
\* False ends the run as a duplicate, 0 from the primary side sends the run to
\* the secondary side, 0 from the secondary side leaves the record to the
\* runtime's redelivery
AcquireLeaseBranch(w) ==
    /\ run[w].pc = "acquired"
    /\ ret.inv = w /\ ret.op = "acquire"
    /\ IF IsSuccess(ret.result)
       THEN /\ run' = [run EXCEPT ![w].pc = "interpret", ![w].fence = ret.result]
            /\ UNCHANGED <<metrics, pending>>
       ELSE IF ret.result = RFalse
       THEN /\ metrics' = Count("duplicate")
            /\ run' = EndRun(w)
            /\ UNCHANGED pending
       ELSE IF run[w].lease_primary
       THEN /\ run' = [run EXCEPT ![w].pc = "acquire", ![w].lease_primary = FALSE]
            /\ UNCHANGED <<metrics, pending>>
       ELSE /\ metrics' = Count("cache")
            /\ pending' = pending \cup {EnvelopeOf(w)}
            /\ run' = EndRun(w)
    /\ UNCHANGED <<rec, rec2, ret, seen, retry_store, idem, checkpoint, sentOn,
                   executed, finished, faults, redelivered>>

\* step 8 as one call of release_lease
ReleaseLeaseCall(w) ==
    /\ run[w].pc = "release"
    /\ \E io \in Outcomes :
        LET item == IF run[w].lease_primary THEN rec ELSE rec2
            ok == ~io /\ release_condition_dynamodb(item, run[w].steps, run[w].retries,
                                                    run[w].fence)
            new == IF ok THEN release_update_dynamodb(item) ELSE item
        IN  /\ faults' = faults + Cost(io)
            /\ rec' = IF run[w].lease_primary THEN new ELSE rec
            /\ rec2' = IF run[w].lease_primary THEN rec2 ELSE new
            /\ ret' = LeaseCall(w, "release", item, io, lease_result(io, ok, RTrue))
    /\ run' = EndRun(w)
    /\ UNCHANGED <<pending, seen, retry_store, idem, checkpoint, sentOn, executed,
                   finished, metrics, redelivered>>

\* what a lease call of the pipeline leaves alone
LeaseCallFrame ==
    UNCHANGED <<dialect, now, envelope, call, held, ownerHeld, lastAcq,
                granted, hist, max_retries, retry_log, writes, api, ncalls, libVars>>

NextFailover ==
    \/ /\ \E w \in Workers : FirstWorker(w) /\ \E e \in pending : Deliver(w, e)
       /\ NoRunUnderWay /\ LeaseFrame
    \/ /\ \E w \in Workers : FirstWorker(w) /\ \E e \in seen : Redeliver(w, e)
       /\ NoRunUnderWay /\ LeaseFrame
    \/ (\E w \in Workers : Dedupe(w)) /\ LeaseFrame
    \/ (\E w \in Workers : AcquireLeaseCall(w)) /\ LeaseCallFrame
    \/ (\E w \in Workers : AcquireLeaseBranch(w)) /\ LeaseCallFrame
    \/ (\E w \in Workers : RunStep(w)) /\ LeaseFrame
    \/ (\E w \in Workers : SetMessageDispatched(w)) /\ LeaseFrame
    \/ (\E w \in Workers : StoreCheckpoint(w)) /\ LeaseFrame
    \/ (\E w \in Workers : SendNextEvent(w)) /\ LeaseFrame
    \/ (\E w \in Workers : StopRetries(w)) /\ LeaseFrame
    \/ (\E w \in Workers : StartRetries(w)) /\ LeaseFrame
    \/ (\E w \in Workers : ReleaseLeaseCall(w)) /\ LeaseCallFrame
    \/ (\E w \in Workers : Kill(w)) /\ LeaseFrame
    \/ (\E e \in retry_store : Sweep(e)) /\ LeaseFrame
    \/ Tick /\ UNCHANGED <<hist, pipeVars>>

SpecFailover == InitPipeline /\ [][NextFailover]_vars

(***************************************************************************)
(* The retry loop of one step whose action raises on every attempt, with   *)
(* every backend up: the record written by start_retries carries           *)
(* run_at = now + backoff, and the sweeper re-submits it once run_at < now.*)
(***************************************************************************)
Min(a, b) == IF a <= b THEN a ELSE b
\* the interpreter's retry policy: exponential in retries, capped
backoff(retries) == Min(2 ^ retries, MaxBackoff)

\* the retry record that start_retries puts for the envelope in hand
RetryRecord(w) ==
    [steps |-> run[w].steps, retries |-> run[w].retries + 1,
     run_at |-> now + backoff(run[w].retries)]

\* run_at of the record stored for envelope e
RunAt(e) ==
    LET k == CHOOSE k \in 1..Len(retry_log) :
                 retry_log[k].steps = e[1] /\ retry_log[k].retries = e[2]
    IN  retry_log[k].run_at

\* a record the sweeper has not picked up yet
Waiting(e) == e \in retry_store /\ e \notin pending \cup seen

RetryStart ==
    /\ dialect = "dynamodb"
    /\ now = T0
    /\ rec = AbsentRec
    /\ envelope = [i \in Inv |-> <<1, 1>>]
    /\ call = [i \in Inv |-> IdleCall]
    /\ ret = NoRet
    /\ held = [i \in Inv |-> NotHeld]
    /\ ownerHeld = [o \in Owners |-> NotHeld]
    /\ lastAcq = NoAcq
    /\ granted = {}
    /\ hist = <<>>
    /\ rec2 = AbsentRec
    /\ pending = {KickoffEnvelope}
    /\ seen = {}
    /\ retry_store = {}
    /\ idem = [n \in Steps |-> Null]
    /\ checkpoint = {}
    /\ sentOn = {}
    /\ executed = [n \in Steps |-> 0]
    /\ finished = {}
    /\ metrics = NoMetrics
    /\ run = [w \in Workers |-> IdleRun]
    /\ redelivered = 0
    /\ max_retries \in 0..DEFAULT_MAX_RETRIES
    /\ retry_log = <<>>
    /\ ApiIdle
    /\ LibIdle

\* every backend is up: the budget of failures is spent
InitRetry == RetryStart /\ faults = MaxFaults
\* backend calls may fail
InitOutage == RetryStart /\ faults = 0

\* step 5 when an action of the step raises
RunStepRaising(w) ==
    /\ run[w].pc = "interpret"
    /\ executed' = [executed EXCEPT ![run[w].steps] = @ + 1]
    /\ run' = [run EXCEPT ![w].pc = "start_retries", ![w].raised = TRUE]
    /\ UNCHANGED <<rec, rec2, pending, seen, retry_store, idem, checkpoint, sentOn,
                   finished, metrics, faults, redelivered>>

\* step 7, with the record it puts kept in the log
StartRetriesAt(w) ==
    /\ StartRetries(w)
    /\ retry_log' = IF <<run[w].steps, run[w].retries + 1>> \in retry_store'
                    THEN Append(retry_log, RetryRecord(w))
                    ELSE retry_log

\* the sweeper finds the record of e with run_at < now
SweepDue(e) == RunAt(e) < now /\ Sweep(e)

\* time passes while a retry record waits for the sweeper
Elapse ==
    /\ NoRunUnderWay
    /\ \E e \in retry_store : Waiting(e) /\ now < RunAt(e) + 1 + MaxLate
    /\ now' = now + 1
    /\ UNCHANGED <<rec, rec2, pending, seen, retry_store, idem, checkpoint, sentOn,
                   executed, finished, metrics, run, faults, redelivered, retry_log>>

\* the variables the retry loop leaves alone
RetryFrame ==
    UNCHANGED <<dialect, envelope, call, ret, held, ownerHeld, lastAcq, granted, hist,
                max_retries, writes, api, ncalls, libVars>>

NextRetry ==
    \/ /\ \E w \in Workers : FirstWorker(w) /\ \E e \in pending : Deliver(w, e)
       /\ NoRunUnderWay /\ RetryFrame /\ UNCHANGED <<now, retry_log>>
    \/ (\E w \in Workers : Dedupe(w)) /\ RetryFrame /\ UNCHANGED <<now, retry_log>>
    \/ (\E w \in Workers : AcquireLease(w)) /\ RetryFrame /\ UNCHANGED <<now, retry_log>>
    \/ (\E w \in Workers : RunStepRaising(w)) /\ RetryFrame /\ UNCHANGED <<now, retry_log>>
    \/ (\E w \in Workers : StartRetriesAt(w)) /\ RetryFrame /\ UNCHANGED now
    \/ (\E w \in Workers : ReleaseLease(w)) /\ RetryFrame /\ UNCHANGED <<now, retry_log>>
    \/ (\E e \in retry_store : SweepDue(e)) /\ RetryFrame /\ UNCHANGED <<now, retry_log>>
    \/ Elapse /\ RetryFrame

SpecRetry == InitRetry /\ [][NextRetry]_vars
\* the same loop with backend failures
SpecOutage == InitOutage /\ [][NextRetry]_vars

(***************************************************************************)
(* The backend API of aws.py, one call at a time.  A call picks the source *)
(* of its role from the flags primary and recovering, asks get_connection  *)
(* for it, and returns without a request when there is none.               *)
(***************************************************************************)
\* variants of the source selection: primary ignored; retry and stream swapped
dispatch_source_ignores_primary(primary, recovering) ==
    <<IF recovering THEN "retry" ELSE "stream", "primary">>

\* send_next_event_for_dispatch: get_primary/secondary_stream_source, or
\* get_primary/secondary_retry_source when recovering
dispatch_source(primary, recovering) ==
    <<IF recovering THEN "retry" ELSE "stream", Side(primary)>>

retries_source_not_swapped(primary, recovering) ==
    <<IF recovering THEN "retry" ELSE "stream", Side(primary)>>

\* start_retries: PRIMARY/SECONDARY_RETRY_SOURCE, or
\* PRIMARY/SECONDARY_STREAM_SOURCE when recovering
retries_source(primary, recovering) ==
    <<IF recovering THEN "stream" ELSE "retry", Side(primary)>>

\* the sources of the other calls
stop_retries_source(primary) == <<"retry", Side(primary)>>
checkpoint_source(primary) == <<"checkpoint", Side(primary)>>
cache_source(primary) == <<"cache", Side(primary)>>
metrics_source == <<"metrics", "primary">>

\* variant: a call without a connection reports success
no_connection_results_truthy(op) == {"ok"}

\* what a call returns when get_connection gives None
no_connection_results(op) ==
    IF op = "get_message_dispatched" THEN {"None", "False"} ELSE {"None"}

\* what a call returns when its request went through
connection_results(op, target) ==
    IF op = "get_message_dispatched"
    THEN IF writes[target] > 0 THEN {"value"} ELSE {"None"}
    ELSE {"ok"}

Falsy(v) == v \in {"None", "False"}

\* one call: the request goes to the target when there is a connection
ApiCall(op, primary, recovering, target, writing) ==
    /\ ncalls < MaxApiCalls
    /\ ncalls' = ncalls + 1
    /\ \E connected \in BOOLEAN :
        /\ writes' = IF connected /\ writing
                      THEN [writes EXCEPT ![target] = @ + 1]
                      ELSE writes
        /\ \E result \in IF connected THEN connection_results(op, target)
                          ELSE no_connection_results(op) :
            api' = [prev |-> api.last,
                    last |-> [op |-> op, primary |-> primary, recovering |-> recovering,
                              target |-> target, connected |-> connected,
                              up |-> <<connected>>,
                              wrote |-> IF connected /\ writing THEN target ELSE NoBackend,
                              result |-> result]]

send_next_event_for_dispatch(primary, recovering) ==
    ApiCall("send_next_event_for_dispatch", primary, recovering,
            dispatch_source(primary, recovering), TRUE)

start_retries(primary, recovering) ==
    ApiCall("start_retries", primary, recovering,
            retries_source(primary, recovering), TRUE)

stop_retries(primary) ==
    ApiCall("stop_retries", primary, FALSE, stop_retries_source(primary), TRUE)

store_checkpoint(primary) ==
    ApiCall("store_checkpoint", primary, FALSE, checkpoint_source(primary), TRUE)

SetMessageDispatchedCall(primary) ==
    ApiCall("set_message_dispatched", primary, FALSE, cache_source(primary), TRUE)

GetMessageDispatchedCall(primary) ==
    ApiCall("get_message_dispatched", primary, FALSE, cache_source(primary), FALSE)

increment_error_counters ==
    ApiCall("increment_error_counters", TRUE, FALSE, metrics_source, TRUE)

\* the order in which step 6 of the pipeline tries to enqueue the next event
DispatchOrder ==
    <<dispatch_source(TRUE, FALSE), dispatch_source(FALSE, FALSE), dispatch_source(TRUE, TRUE)>>

\* the first source of the order that has a connection
FirstConnected(up) ==
    IF \E k \in 1..Len(up) : up[k]
    THEN DispatchOrder[CHOOSE k \in 1..Len(up) : up[k] /\ \A j \in 1..(k - 1) : ~up[j]]
    ELSE NoBackend

\* step 6 of the pipeline: send_next_event_for_dispatch to the primary stream,
\* then to the secondary, then with recovering, until one call goes through
DispatchNextEvent ==
    /\ ncalls < MaxApiCalls
    /\ ncalls' = ncalls + 1
    /\ \E up \in [1..Len(DispatchOrder) -> BOOLEAN] :
        LET target == FirstConnected(up)
        IN  /\ writes' = IF target = NoBackend THEN writes
                          ELSE [writes EXCEPT ![target] = @ + 1]
            /\ api' = [prev |-> api.last,
                       last |-> [op |-> "dispatch", primary |-> TRUE, recovering |-> FALSE,
                                 target |-> target, connected |-> target # NoBackend,
                                 up |-> up,
                                 wrote |-> target,
                                 result |-> IF target = NoBackend THEN "None" ELSE "ok"]]

InitApi ==
    /\ dialect = "dynamodb"
    /\ now = T0
    /\ rec = AbsentRec
    /\ envelope = [i \in Inv |-> <<1, 1>>]
    /\ call = [i \in Inv |-> IdleCall]
    /\ ret = NoRet
    /\ held = [i \in Inv |-> NotHeld]
    /\ ownerHeld = [o \in Owners |-> NotHeld]
    /\ lastAcq = NoAcq
    /\ granted = {}
    /\ hist = <<>>
    /\ PipelineIdle

\* the variables the API calls leave alone
ApiFrame ==
    UNCHANGED <<leaseVars, rec2, pending, seen, retry_store, idem, checkpoint, sentOn,
                executed, finished, metrics, run, faults, redelivered, max_retries,
                retry_log, libVars>>

NextApi ==
    \/ (\E p, r \in BOOLEAN : send_next_event_for_dispatch(p, r)) /\ ApiFrame
    \/ (\E p, r \in BOOLEAN : start_retries(p, r)) /\ ApiFrame
    \/ (\E p \in BOOLEAN : stop_retries(p)) /\ ApiFrame
    \/ (\E p \in BOOLEAN : store_checkpoint(p)) /\ ApiFrame
    \/ (\E p \in BOOLEAN : SetMessageDispatchedCall(p)) /\ ApiFrame
    \/ (\E p \in BOOLEAN : GetMessageDispatchedCall(p)) /\ ApiFrame
    \/ increment_error_counters /\ ApiFrame
    \/ DispatchNextEvent /\ ApiFrame

SpecApi == InitApi /\ [][NextApi]_vars

(***************************************************************************)
(* client.py: the calls that start state machines.                         *)
(***************************************************************************)
\* constants.py: STATE.PSEUDO_INIT and PAYLOAD.DEFAULT_VERSION
PSEUDO_INIT == "pseudo_init"
DEFAULT_VERSION == "0.1"
\* largest number of machines one start_state_machines call is given
MaxMachines == 2

MachineNames == {"machine_a"}
Contexts == {Dict("ctx_a"), Dict("ctx_b")}
\* <<current_state, current_event>> a caller passes: the defaults, or a state
\* and an event of the machine
StartPoints == {<<PSEUDO_INIT, PSEUDO_INIT>>, <<"state_b", "event_b">>}
\* the guid a caller has for its i-th machine
Guids == <<"guid_a", "guid_b", "guid_c", "guid_d">>
\* correlation ids a caller passes: none, the empty str, a guid
SuppliedIds == {None, Str(""), Str(Guids[1]), Str(Guids[2])}
SeqsUpTo(S, n) == UNION {[1..k -> S] : k \in 0..n}

\* truth value of a Python value or list
bool(v) == v # None /\ v # Str("") /\ v # List(<<>>)
\* uuid.uuid4().hex: the n-th value drawn differs from every other one
uuid4_hex(n) == [kind |-> "uuid", val |-> n]

\* the keys of the payload in the order sort_keys=True writes them
KeyOrder == <<"correlation_id", "current_event", "current_state", "machine_name",
              "retries", "started_at", "steps", "system_context", "user_context",
              "version">>
\* the members of a JSON object, in key order
Members(d) ==
    LET ks == SelectSeq(KeyOrder, LAMBDA k : k \in DOMAIN d)
    IN  [i \in 1..Len(ks) |-> <<ks[i], d[ks[i]]>>]
\* the dict of a JSON object
Object(m) ==
    [k \in {m[i][1] : i \in DOMAIN m} |-> m[CHOOSE i \in DOMAIN m : m[i][1] = k][2]]
\* json.dumps(payload, sort_keys=True) and json.loads of the envelope
json_dumps(payload) == Members([payload EXCEPT !.system_context = Members(@)])
json_loads(data) == [Object(data) EXCEPT !.system_context = Object(@)]

\* the payload of a machine that has not run a step
kickoff_payload(machine_name, user_context, correlation_id, current_state, current_event) ==
    [version |-> Str(DEFAULT_VERSION),
     system_context |-> [started_at |-> Num(now),
                         machine_name |-> Str(machine_name),
                         current_state |-> Str(current_state),
                         current_event |-> Str(current_event),
                         steps |-> Num(0),
                         retries |-> Num(0),
                         correlation_id |-> correlation_id],
     user_context |-> user_context]

\* the batched form of send_next_event_for_dispatch
send_next_events_for_dispatch(primary, recovering) ==
    ApiCall("send_next_events_for_dispatch", primary, recovering,
            dispatch_source(primary, recovering), TRUE)

\* the arguments of a call of the client and the counters before it
Started(fn, machine_name, user_contexts, correlation_ids, current_state, current_event) ==
    [fn |-> fn, machine_name |-> machine_name, user_contexts |-> user_contexts,
     correlation_ids |-> correlation_ids, current_state |-> current_state,
     current_event |-> current_event, uuids |-> uuids, ncalls |-> ncalls, now |-> now]

\* variant that partitions the stream by machine name
start_state_machine_keyed_by_name(machine_name, initial_context, correlation_id, current_state, current_event) ==
    LET cid == IF bool(correlation_id) THEN correlation_id ELSE uuid4_hex(uuids + 1)
        payload == kickoff_payload(machine_name, initial_context, cid, current_state,
                                   current_event)
    IN  /\ uuids' = IF bool(correlation_id) THEN uuids ELSE uuids + 1
        /\ requests' = <<[op |-> "send_next_event_for_dispatch",
                          data |-> <<json_dumps(payload)>>,
                          keys |-> <<Str(machine_name)>>]>>
        /\ started' = Started("start_state_machine", machine_name, <<initial_context>>,
                              correlation_id, current_state, current_event)
        /\ send_next_event_for_dispatch(TRUE, FALSE)

start_state_machine(machine_name, initial_context, correlation_id, current_state, current_event) ==
    LET cid == IF bool(correlation_id) THEN correlation_id ELSE uuid4_hex(uuids + 1)
        payload == kickoff_payload(machine_name, initial_context, cid, current_state,
                                   current_event)
    IN  /\ uuids' = IF bool(correlation_id) THEN uuids ELSE uuids + 1
        /\ requests' = <<[op |-> "send_next_event_for_dispatch",
                          data |-> <<json_dumps(payload)>>,
                          keys |-> <<cid>>]>>
        /\ started' = Started("start_state_machine", machine_name, <<initial_context>>,
                              correlation_id, current_state, current_event)
        /\ send_next_event_for_dispatch(TRUE, FALSE)

\* variant that sends the envelopes in reverse order
start_state_machines_reversed(machine_name, user_contexts, correlation_ids, current_state, current_event) ==
    LET n == Len(user_contexts)
        ids == IF bool(correlation_ids) THEN correlation_ids.val
               ELSE [i \in 1..n |-> uuid4_hex(uuids + i)]
        all_data == [i \in 1..n |->
                        json_dumps(kickoff_payload(machine_name, user_contexts[n + 1 - i],
                                                   ids[n + 1 - i], current_state,
                                                   current_event))]
    IN  /\ uuids' = IF bool(correlation_ids) THEN uuids ELSE uuids + n
        /\ requests' = <<[op |-> "send_next_events_for_dispatch",
                          data |-> all_data, keys |-> ids]>>
        /\ started' = Started("start_state_machines", machine_name, user_contexts,
                              correlation_ids, current_state, current_event)
        /\ send_next_events_for_dispatch(TRUE, FALSE)

start_state_machines(machine_name, user_contexts, correlation_ids, current_state, current_event) ==
    LET n == Len(user_contexts)
        ids == IF bool(correlation_ids) THEN correlation_ids.val
               ELSE [i \in 1..n |-> uuid4_hex(uuids + i)]
        all_data == [i \in 1..n |->
                        json_dumps(kickoff_payload(machine_name, user_contexts[i],
                                                   ids[i], current_state,
                                                   current_event))]
    IN  /\ uuids' = IF bool(correlation_ids) THEN uuids ELSE uuids + n
        /\ requests' = <<[op |-> "send_next_events_for_dispatch",
                          data |-> all_data, keys |-> ids]>>
        /\ started' = Started("start_state_machines", machine_name, user_contexts,
                              correlation_ids, current_state, current_event)
        /\ send_next_events_for_dispatch(TRUE, FALSE)

\* the lists of correlation ids a caller passes for n machines: None, or one
\* entry per machine, a guid or None
CorrelationIdLists(n) ==
    {None} \cup {List(ids) : ids \in {l \in [1..n -> {None} \cup {Str(Guids[i]) : i \in 1..n}] :
                                        \A i \in 1..n : l[i] \in {None, Str(Guids[i])}}}

\* the variables the client leaves alone
ClientFrame ==
    UNCHANGED <<leaseVars, rec2, pending, seen, retry_store, idem, checkpoint, sentOn,
                executed, finished, metrics, run, faults, redelivered, max_retries,
                retry_log, chaosVars, configVars, dialectVars, arnVars, awsVars>>

NextClient ==
    \/ /\ \E m \in MachineNames, c \in Contexts, id \in SuppliedIds, p \in StartPoints :
            start_state_machine(m, c, id, p[1], p[2])
       /\ ClientFrame
    \/ /\ \E m \in MachineNames, cs \in SeqsUpTo(Contexts, MaxMachines), p \in StartPoints :
            \E ids \in CorrelationIdLists(Len(cs)) :
                start_state_machines(m, cs, ids, p[1], p[2])
       /\ ClientFrame

SpecClient == InitApi /\ [][NextClient]_vars

(***************************************************************************)
(* The chaos wrapper of the connection broker: a ChaosConnection stands in *)
(* for a client and decides at each method call, by uniform draws against  *)
(* the rules of its service, whether the caller gets a configured outcome. *)
(* Probabilities and draws are in tenths.                                  *)
(***************************************************************************)
\* largest number of chaos rules of a configuration
MaxRules == 2

Services == {"kinesis", "redis"}
\* configured outcomes: an exception to raise, a value to return
ChaosOutcomes == {[kind |-> "exception", val |-> "Exception"], Str("zap")}
Probabilities == {0, 5, 10}
Draws == {1, 5, 9}
Scopes == {"plain", "pipeline"}
\* what find_things of the wrapped client returns
WRAPPED_RESULT == Num(1)

\* the chaos dict {service: {outcome: probability}}, one rule per (service,
\* outcome), in the order the dict is iterated
ChaosRules ==
    {rules \in SeqsUpTo([service : Services, outcome : ChaosOutcomes,
                         probability : Probabilities], MaxRules) :
        \A i, j \in DOMAIN rules :
            (/\ rules[i].service = rules[j].service
             /\ rules[i].outcome = rules[j].outcome) => i = j}

\* everything outside the library is idle
OutsideLibIdle ==
    /\ dialect = "dynamodb"
    /\ now = T0
    /\ rec = AbsentRec
    /\ envelope = [i \in Inv |-> <<1, 1>>]
    /\ call = [i \in Inv |-> IdleCall]
    /\ ret = NoRet
    /\ held = [i \in Inv |-> NotHeld]
    /\ ownerHeld = [o \in Owners |-> NotHeld]
    /\ lastAcq = NoAcq
    /\ granted = {}
    /\ hist = <<>>
    /\ PipelineCoreIdle

InitChaos ==
    /\ OutsideLibIdle
    /\ ClientIdle
    /\ chaos \in [service_name : Services, rules : ChaosRules]
    /\ intercepted = NoInterception
    /\ ConfigIdle
    /\ DialectsIdle
    /\ ArnIdle
    /\ AwsIdle

\* variant in which a draw equal to the probability fires the rule
chaos_fires_on_equal(draw, probability) == draw <= probability

\* a rule fires on a draw strictly below its probability
chaos_fires(draw, probability) == draw < probability

\* whether the wrapped method runs before the configured outcome is handed
\* out: it runs at a draw of 0.1, it does not at a draw of 0.9
run_before(draw) ==
    IF draw = 1 THEN {TRUE} ELSE IF draw = 9 THEN {FALSE} ELSE BOOLEAN

\* the configured outcome: an exception is raised, a value is returned
chaos_result(outcome) ==
    [how |-> IF outcome.kind = "exception" THEN "raise" ELSE "return", value |-> outcome]

\* the first of the rules of the connection's service that fires, 0 for none
FirstFiring(draws) ==
    LET firing == {i \in DOMAIN chaos.rules :
                      /\ chaos.rules[i].service = chaos.service_name
                      /\ chaos_fires(draws[i], chaos.rules[i].probability)}
    IN  IF firing = {} THEN 0 ELSE CHOOSE i \in firing : \A j \in firing : i <= j

\* the draws made: one per rule of the service, up to the rule that fires
DrawsMade(draws, fired) ==
    [i \in DOMAIN chaos.rules |->
        IF /\ chaos.rules[i].service = chaos.service_name
           /\ (fired = 0 \/ i <= fired)
        THEN draws[i] ELSE Null]

\* variant in which the methods of a pipeline() scope go to the client
ChaosCall_pipeline_passthrough(scope) ==
    /\ intercepted = NoInterception
    /\ \E draws \in [DOMAIN chaos.rules -> Draws], run_draw \in Draws :
       \E ran \in run_before(run_draw) :
        LET fired == IF scope = "pipeline" THEN 0 ELSE FirstFiring(draws)
        IN  intercepted' =
                [scope |-> scope,
                 draws |-> DrawsMade(draws, FirstFiring(draws)),
                 run_draw |-> IF fired = 0 THEN Null ELSE run_draw,
                 fired |-> FirstFiring(draws),
                 ran |-> IF fired = 0 \/ ran THEN 1 ELSE 0,
                 result |-> IF fired = 0
                            THEN [how |-> "return", value |-> WRAPPED_RESULT]
                            ELSE chaos_result(chaos.rules[fired].outcome)]
    /\ UNCHANGED chaos

\* a method call on the ChaosConnection, or on the scope its pipeline() gives
ChaosCall(scope) ==
    /\ intercepted = NoInterception
    /\ \E draws \in [DOMAIN chaos.rules -> Draws], run_draw \in Draws :
       \E ran \in run_before(run_draw) :
        LET fired == FirstFiring(draws)
        IN  intercepted' =
                [scope |-> scope,
                 draws |-> DrawsMade(draws, fired),
                 run_draw |-> IF fired = 0 THEN Null ELSE run_draw,
                 fired |-> fired,
                 ran |-> IF fired = 0 \/ ran THEN 1 ELSE 0,
                 result |-> IF fired = 0
                            THEN [how |-> "return", value |-> WRAPPED_RESULT]
                            ELSE chaos_result(chaos.rules[fired].outcome)]
    /\ UNCHANGED chaos

\* the caller has the outcome of the call
ChaosReturn ==
    /\ intercepted # NoInterception
    /\ intercepted' = NoInterception
    /\ UNCHANGED chaos

\* the variables the chaos wrapper leaves alone
ChaosFrame ==
    UNCHANGED <<leaseVars, rec2, pending, seen, retry_store, idem, checkpoint, sentOn,
                executed, finished, metrics, run, faults, redelivered, max_retries,
                retry_log, writes, api, ncalls, clientVars, configVars, dialectVars, arnVars, awsVars>>

NextChaos ==
    \/ (\E scope \in Scopes : ChaosCall(scope)) /\ ChaosFrame
    \/ ChaosReturn /\ ChaosFrame

SpecChaos == InitChaos /\ [][NextChaos]_vars

(***************************************************************************)
(* validate_config: the check of the configured sources, made at the first *)
(* use of the process.                                                     *)
(***************************************************************************)
\* largest number of validate_config calls of a process
MaxValidations == 2

\* ARNs a source is set to: one of an allowed service, one of another service
SourceArns == {Str("arn_allowed"), Str("arn_not_allowed")}
SourceConfigs == [required : {TRUE}, failover : {TRUE},
                  primary : SourceArns \cup {None}, secondary : SourceArns \cup {None}]
allowed(arn) == arn = Str("arn_allowed")

\* a record of the logger
Log(level, key, what) == [level |-> level, key |-> key, what |-> what]
\* _validate_config(key, data): the records it logs, in order
validate_config_one(key, data) ==
    (IF data.required /\ data.primary = None
     THEN <<Log("fatal", key, "primary unset")>> ELSE <<>>)
    \o (IF data.primary # None /\ ~allowed(data.primary)
        THEN <<Log("fatal", key, "primary not allowed")>> ELSE <<>>)
    \o (IF data.failover /\ data.secondary = None
        THEN <<Log("warning", key, "secondary unset")>> ELSE <<>>)
    \o (IF data.failover /\ data.secondary # None /\ ~allowed(data.secondary)
        THEN <<Log("fatal", key, "secondary not allowed")>> ELSE <<>>)
    \o (IF data.failover /\ data.primary # None /\ data.primary = data.secondary
        THEN <<Log("warning", key, "primary = secondary")>> ELSE <<>>)

\* the log after one _validate_config per key
LogOfAll == [k \in ConfigKeys |-> validation.logged[k] \o validate_config_one(k, settings[k])]

InitConfig ==
    /\ OutsideLibIdle
    /\ ClientIdle
    /\ ChaosIdle
    /\ \E k \in ConfigKeys, c \in SourceConfigs :
          settings = [x \in ConfigKeys |-> IF x = k THEN c ELSE DefaultSource]
    /\ validated_config = FALSE
    /\ validation = NotValidated
    /\ DialectsIdle
    /\ ArnIdle
    /\ AwsIdle

\* variant that checks the sources at every call
validate_config_every_call ==
    /\ validation.calls < MaxValidations
    /\ validated_config' = TRUE
    /\ validation' = [calls |-> validation.calls + 1,
                      checks |-> [k \in ConfigKeys |-> validation.checks[k] + 1],
                      logged |-> LogOfAll,
                      raised |-> FALSE]
    /\ UNCHANGED settings

\* validate_config: nothing when the flag is set; otherwise one
\* _validate_config per key, which logs and returns, and the flag is set
validate_config ==
    /\ validation.calls < MaxValidations
    /\ IF validated_config
       THEN /\ validation' = [validation EXCEPT !.calls = @ + 1]
            /\ UNCHANGED validated_config
       ELSE /\ validated_config' = TRUE
            /\ validation' = [calls |-> validation.calls + 1,
                              checks |-> [k \in ConfigKeys |-> validation.checks[k] + 1],
                              logged |-> LogOfAll,
                              raised |-> FALSE]
    /\ UNCHANGED settings

\* the variables validate_config leaves alone
ConfigFrame ==
    UNCHANGED <<leaseVars, rec2, pending, seen, retry_store, idem, checkpoint, sentOn,
                executed, finished, metrics, run, faults, redelivered, max_retries,
                retry_log, writes, api, ncalls, clientVars, chaosVars, dialectVars, arnVars, awsVars>>

NextConfig ==
    \/ validate_config /\ ConfigFrame

SpecConfig == InitConfig /\ [][NextConfig]_vars

(***************************************************************************)
(* The two lease dialects side by side: every acquire_lease, release_lease *)
(* and clock advance goes to a document-store record and to a cache record *)
(* alike, one call at a time.                                              *)
(***************************************************************************)
InitDialects ==
    /\ dialect \in {"memcache", "redis"}
    /\ now = T0
    /\ rec = AbsentRec
    /\ envelope = [i \in Inv |-> <<1, 1>>]
    /\ call = [i \in Inv |-> IdleCall]
    /\ ret = NoRet
    /\ held = [i \in Inv |-> NotHeld]
    /\ ownerHeld = [o \in Owners |-> NotHeld]
    /\ lastAcq = NoAcq
    /\ granted = {}
    /\ hist = <<>>
    /\ PipelineCoreIdle
    /\ ClientIdle
    /\ ChaosIdle
    /\ ConfigIdle
    /\ DialectsIdle
    /\ ArnIdle
    /\ AwsIdle

\* the call leaves the ground on which the dialects are compared: a release
\* by the holder with another fence than the document store's or not before
\* the expiry, an acquire by another (steps, retries) at the instant of expiry
Strays(op, s, r, f) ==
    /\ rec.lease_state = "leased"
    /\ IF op = "release"
       THEN /\ rec.steps = s /\ rec.retries = r
            /\ f # RFence(rec.fence) \/ now >= rec.expires
       ELSE /\ ~(rec.steps = s /\ rec.retries = r)
            /\ now = rec.expires

\* acquire_lease with the same arguments at the same time in both dialects
AcquireBoth(s, r) ==
    /\ rec.fence < MaxFence
    /\ \E io \in BOOLEAN :
        LET ok_doc == ~io /\ acquire_condition_dynamodb(rec, s, r, now)
            new_doc == acquire_update_dynamodb(rec, s, r, now)
            ok_cache == ~io /\ acquire_available_cache(Value(rec_cache), s, r, now)
        IN  /\ rec' = IF ok_doc THEN new_doc ELSE rec
            /\ rec_cache' = IF ok_cache THEN acquire_value_cache(s, r, now, now)
                            ELSE rec_cache
            /\ side_by_side' =
                  [op |-> "acquire", f |-> RNone,
                   doc |-> lease_result(io, ok_doc, RFence(new_doc.fence)),
                   cache |-> lease_result(io, ok_cache, RTrue),
                   strayed |-> side_by_side.strayed \/ Strays("acquire", s, r, RNone)]
    /\ UNCHANGED <<dialect, now>>

\* release_lease with the same arguments at the same time in both dialects
ReleaseBoth(s, r, f) ==
    /\ \E io \in BOOLEAN :
        LET ok_doc == ~io /\ release_condition_dynamodb(rec, s, r, f)
            ok_cache == ~io /\ release_owned_cache(Value(rec_cache), s, r)
        IN  /\ rec' = IF ok_doc THEN release_update_dynamodb(rec) ELSE rec
            /\ rec_cache' =
                  IF ok_cache
                  THEN [AbsentRec EXCEPT !.ttl = IF dialect = "memcache"
                                                 THEN now + RELEASE_TTL ELSE Null]
                  ELSE rec_cache
            /\ side_by_side' =
                  [op |-> "release", f |-> f,
                   doc |-> lease_result(io, ok_doc, RTrue),
                   cache |-> lease_result(io, ok_cache, RTrue),
                   strayed |-> side_by_side.strayed \/ Strays("release", s, r, f)]
    /\ UNCHANGED <<dialect, now>>

\* the cache drops a key whose TTL has run out
EvictBoth ==
    /\ rec_cache.ttl # Null
    /\ now >= rec_cache.ttl
    /\ rec_cache' = AbsentRec
    /\ UNCHANGED <<dialect, now, rec, side_by_side>>

\* time passes for both dialects
TickBoth ==
    /\ now + TickSize <= T0 + MaxElapsed
    /\ now' = now + TickSize
    /\ UNCHANGED <<dialect, rec, rec_cache, side_by_side>>

\* the variables the lease calls made side by side leave alone
DialectsFrame ==
    UNCHANGED <<envelope, call, ret, held, ownerHeld, lastAcq, granted, hist,
                rec2, pending, seen, retry_store, idem, checkpoint, sentOn,
                executed, finished, metrics, run, faults, redelivered, max_retries,
                retry_log, writes, api, ncalls, clientVars, chaosVars, configVars, arnVars, awsVars>>

NextDialects ==
    \/ (\E o \in Owners : AcquireBoth(o[1], o[2])) /\ DialectsFrame
    \/ (\E o \in Owners, f \in Fences : ReleaseBoth(o[1], o[2], f)) /\ DialectsFrame
    \/ EvictBoth /\ DialectsFrame
    \/ TickBoth /\ DialectsFrame

SpecDialects == InitDialects /\ [][NextDialects]_vars

(***************************************************************************)
(* get_arn_from_arn_string: an ARN string parsed into its six fields.      *)
(* A str is the sequence of its characters.                                *)
(***************************************************************************)
\* longest ARN string parsed
MaxArnLen == 7
\* number of splits: the ARN has one field more
ARN_SPLITS == 5

Chars == {"a", "b", ":"}
ArnStrings == {Str(chars) : chars \in SeqsUpTo(Chars, MaxArnLen)} \cup {None}
ArnFields == <<"arn", "partition", "service", "region_name", "account_id", "resource">>

\* position of the first colon of a str, 0 when it has none
find_colon(chars) ==
    IF \E i \in DOMAIN chars : chars[i] = ":"
    THEN CHOOSE i \in DOMAIN chars :
            chars[i] = ":" /\ \A j \in 1..(i - 1) : chars[j] # ":"
    ELSE 0

\* str.split(':', maxsplit)
RECURSIVE split(_, _)
split(chars, maxsplit) ==
    IF maxsplit = 0 \/ find_colon(chars) = 0 THEN <<chars>>
    ELSE <<SubSeq(chars, 1, find_colon(chars) - 1)>>
         \o split(SubSeq(chars, find_colon(chars) + 1, Len(chars)), maxsplit - 1)

\* ':'.join(pieces)
RECURSIVE join(_)
join(pieces) ==
    IF Len(pieces) = 0 THEN <<>>
    ELSE IF Len(pieces) = 1 THEN pieces[1]
    ELSE pieces[1] \o <<":">> \o join(Tail(pieces))

\* the Arn of the pieces: a field without a piece is None
Arn(pieces) ==
    [k \in {ArnFields[i] : i \in DOMAIN ArnFields} \cup {"returned"} |->
        IF k = "returned" THEN TRUE
        ELSE LET i == CHOOSE i \in DOMAIN ArnFields : ArnFields[i] = k
             IN  IF i <= Len(pieces) THEN Str(pieces[i]) ELSE None]

\* variant that splits at every colon and keeps the first six pieces
get_arn_from_arn_string_drops_rest(string) ==
    IF string = None THEN {Arn(<<>>)}
    ELSE IF string.val = <<>> THEN {Arn(<<>>), Arn(<<string.val>>)}
    ELSE {Arn(SubSeq(split(string.val, Len(string.val)), 1,
                     Min(ARN_SPLITS + 1, Len(split(string.val, Len(string.val))))))}

\* get_arn_from_arn_string: the Arns the call can return; of the empty str
\* only the resource is pinned (None), its first field is '' or None
get_arn_from_arn_string(string) ==
    IF string = None THEN {Arn(<<>>)}
    ELSE IF string.val = <<>> THEN {Arn(<<>>), Arn(<<string.val>>)}
    ELSE {Arn(split(string.val, ARN_SPLITS))}

InitArn ==
    /\ OutsideLibIdle
    /\ ClientIdle
    /\ ChaosIdle
    /\ ConfigIdle
    /\ DialectsIdle
    /\ arn_string \in ArnStrings
    /\ parsed = NotParsed
    /\ AwsIdle

\* the call returns
ParseArn ==
    /\ ~parsed.returned
    /\ parsed' \in get_arn_from_arn_string(arn_string)
    /\ UNCHANGED arn_string

\* the variables the parser leaves alone
ArnFrame ==
    UNCHANGED <<leaseVars, rec2, pending, seen, retry_store, idem, checkpoint, sentOn,
                executed, finished, metrics, run, faults, redelivered, max_retries,
                retry_log, writes, api, ncalls, clientVars, chaosVars, configVars,
                dialectVars, awsVars>>

NextArn ==
    \/ ParseArn /\ ArnFrame

SpecArn == InitArn /\ [][NextArn]_vars

(***************************************************************************)
(* Everything but the calls of the aws module modelled below is idle.      *)
(***************************************************************************)
outsideAwsVars == <<leaseVars, rec2, pending, seen, retry_store, idem, checkpoint, sentOn,
                    executed, finished, metrics, run, faults, redelivered, max_retries,
                    retry_log, writes, api, ncalls, clientVars, chaosVars, configVars,
                    dialectVars, arnVars>>
OutsideAwsIdle ==
    /\ OutsideLibIdle
    /\ ClientIdle
    /\ ChaosIdle
    /\ ConfigIdle
    /\ DialectsIdle
    /\ ArnIdle

(***************************************************************************)
(* start_retries / stop_retries on a document-store retry source: the      *)
(* retry table, whose primary key is (partition, correlation_id_steps).    *)
(***************************************************************************)
\* calls made on the retry table in one run
MaxTableCalls == 3
\* partitions of the retry table: the sweeper queries 0..15
NUM_PARTITIONS == 16

TableSteps == {0, 1}
RunAts == {1, 2}
SweepTimes == {1, 2, 3}
RETRY_PAYLOAD == "d"

\* str(n) of a natural number
DecimalDigits == <<"0", "1", "2", "3", "4", "5", "6", "7", "8", "9">>
RECURSIVE str(_)
str(n) ==
    IF n < 10 THEN <<DecimalDigits[n + 1]>>
    ELSE str(n \div 10) \o <<DecimalDigits[(n % 10) + 1]>>

\* the attribute correlation_id_steps: correlation_id + '-' + str(steps)
correlation_id_steps(correlation_id, steps) == correlation_id \o <<"-">> \o str(steps)

\* the primary key of an item and of a context
ItemKey(item) == <<item.partition, item.correlation_id_steps>>
ContextKey(correlation_id, steps) ==
    <<partitions[correlation_id], correlation_id_steps(correlation_id, steps)>>

\* put_item: the item takes the place of the stored item with its key
put_item(table, item) == {i \in table : ItemKey(i) # ItemKey(item)} \cup {item}
\* delete_item(Key=key)
delete_item(table, key) == {i \in table : ItemKey(i) # key}

\* retriable_entities: the items the sweeper finds, partition by partition,
\* with run_at LT the time of the sweep
retriable_entities(table, run_at) ==
    UNION {{i \in table : i.partition = p /\ i.run_at < run_at} :
               p \in 0..(NUM_PARTITIONS - 1)}

\* the hash of a correlation id other than 'b' is not pinned: it falls into
\* the partition of 'b' or into another one
InitRetryTable ==
    /\ OutsideAwsIdle
    /\ retry_table = {}
    /\ retry_call = NoTableCall
    /\ partitions \in [CorrelationIds -> {0, PARTITION_OF_B}]
    /\ partitions[<<"b">>] = PARTITION_OF_B
    /\ InterpIdle
    /\ SqsIdle
    /\ DelayIdle

TableCall(op, correlation_id, steps, run_at, key, connected) ==
    [op |-> op, correlation_id |-> correlation_id, steps |-> steps, run_at |-> run_at,
     key |-> key, connected |-> connected,
     had |-> {i \in retry_table : ItemKey(i) = key}, n |-> retry_call.n + 1]

\* start_retries(context, run_at, payload) on a document-store retry source;
\* without a connection nothing is written
StartRetriesTable(correlation_id, steps, run_at, connected) ==
    /\ retry_call.n < MaxTableCalls
    /\ LET item == [partition |-> partitions[correlation_id],
                    correlation_id_steps |-> correlation_id_steps(correlation_id, steps),
                    payload |-> RETRY_PAYLOAD,
                    run_at |-> run_at]
       IN  /\ retry_table' = IF connected THEN put_item(retry_table, item)
                             ELSE retry_table
           /\ retry_call' = TableCall("start_retries", correlation_id, steps, run_at,
                                      ItemKey(item), connected)
    /\ UNCHANGED partitions

\* variant of stop_retries that addresses the item by the correlation id alone
StopRetriesTable_key_without_steps(correlation_id, steps, connected) ==
    /\ retry_call.n < MaxTableCalls
    /\ LET key == <<partitions[correlation_id], correlation_id>>
       IN  /\ retry_table' = IF connected THEN delete_item(retry_table, key)
                             ELSE retry_table
           /\ retry_call' = TableCall("stop_retries", correlation_id, steps, Null,
                                      key, connected)
    /\ UNCHANGED partitions

\* stop_retries(context) on a document-store retry source; without a
\* connection nothing is deleted
StopRetriesTable(correlation_id, steps, connected) ==
    /\ retry_call.n < MaxTableCalls
    /\ LET key == <<partitions[correlation_id],
                    correlation_id_steps(correlation_id, steps)>>
       IN  /\ retry_table' = IF connected THEN delete_item(retry_table, key)
                             ELSE retry_table
           /\ retry_call' = TableCall("stop_retries", correlation_id, steps, Null,
                                      key, connected)
    /\ UNCHANGED partitions

RetryTableFrame == UNCHANGED <<outsideAwsVars, interpVars, sqsVars, delayVars>>

NextRetryTable ==
    \/ (\E c \in CorrelationIds, n \in TableSteps, t \in RunAts, conn \in BOOLEAN :
            StartRetriesTable(c, n, t, conn)) /\ RetryTableFrame
    \/ (\E c \in CorrelationIds, n \in TableSteps, conn \in BOOLEAN :
            StopRetriesTable(c, n, conn)) /\ RetryTableFrame

SpecRetryTable == InitRetryTable /\ [][NextRetryTable]_vars

(***************************************************************************)
(* One step of the FSM interpreter: the actions of a transition and the    *)
(* emission of the next event.                                             *)
(***************************************************************************)
PSEUDO_FINAL == "pseudo_final"
\* the actions of a step in the order they are fired
ActionOrder == <<"exit_action", "action", "entry_action", "do_action">>
ActionNames == {ActionOrder[k] : k \in DOMAIN ActionOrder}
\* the event an action hands to send_event, the event do_action returns
SentBy(name) == Str(name)
DoActionReturns == {None, Str("next_event")}

\* a step starts on a transition whose states define any of the actions
InitInterpreter ==
    /\ OutsideAwsIdle
    /\ RetryTableIdle
    /\ SqsIdle
    /\ DelayIdle
    /\ interp \in [pc : {"exit_action"}, defined : SUBSET ActionNames, final : BOOLEAN,
                   fired : {<<>>}, deferred : {<<>>}, returned : {None},
                   emitted : {<<>>}]

\* where the step goes after an action
After(name) ==
    IF name = "do_action" THEN "select"
    ELSE ActionOrder[1 + CHOOSE k \in DOMAIN ActionOrder : ActionOrder[k] = name]

\* variant in which send_event emits the event at once
Fire_emits_at_once(name, sends, raises, returns) ==
    /\ interp.pc = name
    /\ name \in interp.defined
    /\ interp' = [interp EXCEPT
            !.fired = Append(@, name),
            !.emitted = IF sends THEN Append(@, SentBy(name)) ELSE @,
            !.returned = IF raises THEN @ ELSE returns,
            !.pc = IF raises THEN "failed" ELSE After(name)]

\* the action is called: it may hand an event to send_event, which defers
\* it, and it may raise, which fails the step
Fire(name, sends, raises, returns) ==
    /\ interp.pc = name
    /\ name \in interp.defined
    /\ interp' = [interp EXCEPT
            !.fired = Append(@, name),
            !.deferred = IF sends THEN Append(@, SentBy(name)) ELSE @,
            !.returned = IF raises THEN @ ELSE returns,
            !.pc = IF raises THEN "failed" ELSE After(name)]

\* an action that is not defined is passed over
Skip ==
    /\ interp.pc \in ActionNames \ interp.defined
    /\ interp' = [interp EXCEPT !.pc = After(interp.pc)]

ExitAction == \E sends, raises \in BOOLEAN : Fire("exit_action", sends, raises, None)
TransitionAction == \E sends, raises \in BOOLEAN : Fire("action", sends, raises, None)
EntryAction == \E sends, raises \in BOOLEAN : Fire("entry_action", sends, raises, None)
DoAction ==
    \E sends, raises \in BOOLEAN, returns \in DoActionReturns :
        Fire("do_action", sends, raises, returns)

\* the next event of the step: what do_action returned, pseudo_final when
\* the target state is final, otherwise none
next_event(returned, final) ==
    IF returned # None THEN <<returned>>
    ELSE IF final THEN <<Str(PSEUDO_FINAL)>>
    ELSE <<>>

\* the end of the step: the deferred events and the next event are emitted
EmitEvents ==
    /\ interp.pc = "select"
    /\ interp' = [interp EXCEPT
            !.emitted = @ \o interp.deferred \o next_event(interp.returned, interp.final),
            !.pc = "done"]

InterpreterFrame == UNCHANGED <<outsideAwsVars, retryTableVars, sqsVars, delayVars>>

NextInterpreter ==
    \/ ExitAction /\ InterpreterFrame
    \/ TransitionAction /\ InterpreterFrame
    \/ EntryAction /\ InterpreterFrame
    \/ DoAction /\ InterpreterFrame
    \/ Skip /\ InterpreterFrame
    \/ EmitEvents /\ InterpreterFrame

SpecInterpreter == InitInterpreter /\ [][NextInterpreter]_vars

(***************************************************************************)
(* _get_sqs_queue_url: the URL of a queue ARN, from settings.SQS_URLS or   *)
(* from get_queue_url, kept in the process-local attribute url_for_<arn>.  *)
(***************************************************************************)
\* lookups made in one process
MaxLookups == 3

SETTINGS_URL == Str("https://sqs.testing.amazonaws.com/1234567890/settings")
BACKEND_URL == Str("https://sqs.testing.amazonaws.com/1234567890/queuename")
FOOBAR == Str("foobar")
\* what get_queue_url answers: a QueueUrl, or a response without one
BackendAnswers == {None, BACKEND_URL, FOOBAR}

InitSqs ==
    /\ OutsideAwsIdle
    /\ RetryTableIdle
    /\ InterpIdle
    /\ DelayIdle
    /\ sqs_urls \in [QueueArns -> {None, SETTINGS_URL}]
    /\ sqs_backend \in [QueueArns -> BackendAnswers]
    /\ sqs_cache = [a \in QueueArns |-> Absent]
    /\ sqs_call = NoLookup

\* the attribute holds a URL: an attribute that is missing or None does not
cached(entry) == entry # Absent /\ bool(entry)

\* where the URL of a lookup comes from
resolve_from(arn) ==
    IF cached(sqs_cache[arn]) THEN "cache"
    ELSE IF sqs_urls[arn] # None THEN "settings"
    ELSE "backend"

\* variant that asks the settings and the backend on every call
GetSqsQueueUrl_always_resolves(arn) ==
    /\ sqs_call.n < MaxLookups
    /\ LET from == IF sqs_urls[arn] # None THEN "settings" ELSE "backend"
           url == IF from = "settings" THEN sqs_urls[arn] ELSE sqs_backend[arn]
       IN  /\ sqs_call' = [arn |-> arn, url |-> url, from |-> from, n |-> sqs_call.n + 1]
           /\ sqs_cache' = [sqs_cache EXCEPT ![arn] = url]
    /\ UNCHANGED <<sqs_urls, sqs_backend>>

\* _get_sqs_queue_url(arn); a lookup that finds no QueueUrl returns None and
\* leaves no URL in the attribute (it is None or as it was)
GetSqsQueueUrl(arn) ==
    /\ sqs_call.n < MaxLookups
    /\ LET from == resolve_from(arn)
           url == IF from = "cache" THEN sqs_cache[arn]
                  ELSE IF from = "settings" THEN sqs_urls[arn]
                  ELSE sqs_backend[arn]
       IN  /\ sqs_call' = [arn |-> arn, url |-> url, from |-> from, n |-> sqs_call.n + 1]
           /\ \E entry \in (IF url = None THEN {sqs_cache[arn], None} ELSE {url}) :
                  sqs_cache' = [sqs_cache EXCEPT ![arn] = entry]
    /\ UNCHANGED <<sqs_urls, sqs_backend>>

\* the backend comes to answer differently
BackendChanges(arn, answer) ==
    /\ sqs_backend[arn] # answer
    /\ sqs_backend' = [sqs_backend EXCEPT ![arn] = answer]
    /\ UNCHANGED <<sqs_urls, sqs_cache, sqs_call>>

\* delattr(_local, 'url_for_' + arn)
DelCacheEntry(arn) ==
    /\ sqs_cache[arn] # Absent
    /\ sqs_cache' = [sqs_cache EXCEPT ![arn] = Absent]
    /\ UNCHANGED <<sqs_urls, sqs_backend, sqs_call>>

\* setattr(_local, 'url_for_' + arn, None)
ResetCacheEntry(arn) ==
    /\ sqs_cache[arn] # None
    /\ sqs_cache' = [sqs_cache EXCEPT ![arn] = None]
    /\ UNCHANGED <<sqs_urls, sqs_backend, sqs_call>>

SqsFrame == UNCHANGED <<outsideAwsVars, retryTableVars, interpVars, delayVars>>

NextSqs ==
    \/ (\E a \in QueueArns : GetSqsQueueUrl(a)) /\ SqsFrame
    \/ (\E a \in QueueArns, u \in BackendAnswers : BackendChanges(a, u)) /\ SqsFrame
    \/ (\E a \in QueueArns : DelCacheEntry(a)) /\ SqsFrame
    \/ (\E a \in QueueArns : ResetCacheEntry(a)) /\ SqsFrame

SpecSqs == InitSqs /\ [][NextSqs]_vars

(***************************************************************************)
(* DelaySeconds of the messages sent to a queue.  time.time() and run_at   *)
(* are floats: they are counted in ticks, fractions of a second, here;     *)
(* DelaySeconds is an int of seconds.                                      *)
(***************************************************************************)
\* constants.py: AWS_SQS.MAX_DELAY_SECONDS
MAX_DELAY_SECONDS == 900
\* resolution of the clock: ticks in a second
TicksPerSecond == 2

\* time.time() at the call, and run_at relative to it, in ticks
Times == {TicksPerSecond * T0 + k : k \in 0..3}
RunAtOffsets == {-(4 * MAX_DELAY_SECONDS), -TicksPerSecond, -1, 0, 1, TicksPerSecond, TicksPerSecond + 1,
                 TicksPerSecond * MAX_DELAY_SECONDS - 1, TicksPerSecond * MAX_DELAY_SECONDS,
                 TicksPerSecond * MAX_DELAY_SECONDS + 1, TicksPerSecond * MAX_DELAY_SECONDS + TicksPerSecond,
                 4 * MAX_DELAY_SECONDS}
QueueOps == {"start_retries", "send_next_event_for_dispatch", "send_next_events_for_dispatch"}

\* int(x): the float, given in ticks, truncated towards zero
int(ticks) == IF ticks >= 0 THEN ticks \div TicksPerSecond ELSE -((-ticks) \div TicksPerSecond)
Max(a, b) == IF a >= b THEN a ELSE b

\* variant without the upper limit
delay_seconds_unclamped(run_at, time) == Max(0, int(run_at - time))

\* the delay until run_at, between 0 and MAX_DELAY_SECONDS
delay_seconds(run_at, time) == Max(0, Min(MAX_DELAY_SECONDS, int(run_at - time)))

InitDelay ==
    /\ OutsideAwsIdle
    /\ RetryTableIdle
    /\ InterpIdle
    /\ SqsIdle
    /\ \E t \in Times, d \in RunAtOffsets :
          delay_call = [NoDelay EXCEPT !.time = t, !.run_at = t + d]

\* send_message / send_message_batch to the queue: start_retries delays the
\* message until run_at, the dispatch functions send it with no delay
SendToQueue(op) ==
    /\ delay_call.op = "none"
    /\ delay_call' = [delay_call EXCEPT
            !.op = op,
            !.DelaySeconds = IF op = "start_retries"
                             THEN delay_seconds(delay_call.run_at, delay_call.time)
                             ELSE 0]

DelayFrame == UNCHANGED <<outsideAwsVars, retryTableVars, interpVars, sqsVars>>

NextDelay ==
    \/ (\E op \in QueueOps : SendToQueue(op)) /\ DelayFrame

SpecDelay == InitDelay /\ [][NextDelay]_vars

(***************************************************************************)
(* Properties of the lease                                                 *)
(***************************************************************************)
\* invocation i holds the lease: its acquire succeeded, it has not released
\* it since, and the expiry stamped by the acquire is still ahead
Holds(i) == held[i] # NotHeld /\ now < held[i]
\* the same for a (steps, retries) tuple
OwnerHolds(o) == ownerHeld[o] # NotHeld /\ now < ownerHeld[o]

\* the lease record is available to (s, r) at time t, as the contract words it
ClaimAvailable(item, s, r, t) ==
    \/ item.lease_state = "absent"
    \/ item.lease_state = "open"
    \/ (item.expires # Null /\ item.expires < t)
    \/ (item.lease_state = "leased" /\ item.steps = s /\ item.retries = r)

\* the record is leased by (s, r)
ClaimOwned(item, s, r) ==
    item.lease_state = "leased" /\ item.steps = s /\ item.retries = r

\* the record is leased by (s, r) and carries the fence f
ClaimOwnedWithFence(item, s, r, f) ==
    ClaimOwned(item, s, r) /\ f.kind = "fence" /\ item.fence = f.val

C2_FenceStrictlyIncreasing ==
    [][dialect = "dynamodb" =>
        /\ rec'.fence >= rec.fence
        /\ (ret = NoRet /\ ret'.op = "release") => rec'.fence = rec.fence
        /\ (ret = NoRet /\ ret'.op = "acquire" /\ IsSuccess(ret'.result)) =>
              /\ ret'.result.kind = "fence"
              /\ \A g \in granted : ret'.result.val > g]_vars

\* two fences were handed out, with a release in between or after
C2_Witness ==
    /\ dialect = "dynamodb"
    /\ Cardinality(granted) >= 2
    /\ ret.op = "release"
    /\ ret.result = RTrue

\* C3 (as stated): in every dialect a release_lease that returns true was
\* given the fence the most recent successful acquire_lease returned.
C3_ReleaseHasLastFence ==
    (ret.op = "release" /\ ret.result = RTrue) => lastAcq.result = ret.f

\* C3 (amended): in the document-store dialect a release_lease that returns
\* true was given the fence the most recent successful acquire_lease
\* returned; in the cache dialects, which hand out no fence and do not look
\* at the one presented, the most recent successful acquire_lease was made
\* for the same (steps, retries).
C3_ReleaseHasLastFenceDynamodb ==
    (ret.op = "release" /\ ret.result = RTrue) =>
        IF dialect = "dynamodb"
        THEN lastAcq.result = ret.f
        ELSE lastAcq.steps = ret.steps /\ lastAcq.retries = ret.retries

\* a release with the fence of a re-acquired lease succeeds
C3_Witness ==
    /\ dialect = "dynamodb"
    /\ ret.op = "release"
    /\ ret.result = RTrue
    /\ ret.f = RFence(2)

\* C4 (as stated): acquire_lease succeeds if and only if the record is
\* absent, open, expired or leased by the same (steps, retries), and returns
\* false in every other case (calls whose backend request fails set aside).
C4_AcquireIffAvailable ==
    (ret.op = "acquire" /\ ~ret.io) =>
        /\ IsSuccess(ret.result) <=> ClaimAvailable(ret.obs, ret.steps, ret.retries, ret.t)
        /\ ~ClaimAvailable(ret.obs, ret.steps, ret.retries, ret.t) => ret.result = RFalse

\* C4 (amended): acquire_lease succeeds only if the record it observes is
\* absent, open, expired or leased by the same (steps, retries); in every
\* other case it returns false; on an available record it succeeds exactly
\* when its conditional write is applied, i.e. unless another writer changed
\* the key since the read (false).  A failing backend request gives 0.
C4_AcquireOnlyIfAvailable ==
    ret.op = "acquire" =>
        LET avail == ClaimAvailable(ret.obs, ret.steps, ret.retries, ret.t)
        IN  /\ IsSuccess(ret.result) => avail
            /\ ret.io => ret.result = RConnError
            /\ (~avail /\ ~ret.io) => ret.result = RFalse
            /\ (avail /\ ~ret.io) => (IsSuccess(ret.result) <=> ~ret.stale)
            /\ (avail /\ ~ret.io /\ ret.stale) => ret.result = RFalse

\* an acquire is refused: leased by another (steps, retries), not expired
C4_Witness ==
    /\ ret.op = "acquire"
    /\ ret.result = RFalse
    /\ ret.obs.lease_state = "leased"
    /\ ret.obs.expires >= ret.t
    /\ <<ret.obs.steps, ret.obs.retries>> # <<ret.steps, ret.retries>>

\* a result that is not a success: False, or 0 after a backend failure
IsFalsy(res) == res \in {RFalse, RConnError}

\* C5 (as stated): release_lease returns true only if the record is leased
\* by exactly (steps, retries) with exactly the fence presented; otherwise it
\* returns false and leaves the record unchanged.
C5_ReleaseOnlyOwnerAndFence ==
    [][(ret = NoRet /\ ret'.op = "release") =>
        LET own == ClaimOwnedWithFence(ret'.obs, ret'.steps, ret'.retries, ret'.f)
        IN  /\ ret'.result = RTrue => own
            /\ ~own => (IsFalsy(ret'.result) /\ rec' = rec)]_vars

\* C5 (amended): in the document-store dialect release_lease returns true
\* only if the record is leased by exactly (steps, retries) with exactly the
\* fence presented; the cache dialects compare (steps, retries) only and do
\* not look at the fence.  When the test fails the call returns false and
\* the record is left unchanged.
C5_ReleaseOnlyOwner ==
    [][(ret = NoRet /\ ret'.op = "release") =>
        LET own == IF dialect = "dynamodb"
                   THEN ClaimOwnedWithFence(ret'.obs, ret'.steps, ret'.retries, ret'.f)
                   ELSE ClaimOwned(ret'.obs, ret'.steps, ret'.retries)
        IN  /\ ret'.result = RTrue => own
            /\ ~own => (IsFalsy(ret'.result) /\ rec' = rec)]_vars

\* the owner presents a stale fence to the document store and is refused
C5_Witness ==
    /\ dialect = "dynamodb"
    /\ ret.op = "release"
    /\ ret.result = RFalse
    /\ ClaimOwned(ret.obs, ret.steps, ret.retries)
    /\ ret.f.kind = "fence"
    /\ ret.f.val # ret.obs.fence

\* the first five calls of the fencing scenario on a fresh key
ScenarioCalls(h, n) ==
    /\ Len(h) >= n
    /\ \A k \in 1..n : h[k].steps = 1 /\ h[k].retries = 1
    /\ n >= 1 => (h[1].op = "acquire" /\ h[1].t = T0)
    /\ n >= 2 => (h[2].op = "acquire" /\ h[2].t = T0)
    /\ n >= 3 => h[3].op = "release"
    /\ n >= 4 => h[4].op = "release"
    /\ n >= 5 => h[5].op = "acquire"

C7_ExpiredLeaseIsGranted ==
    (/\ ret.op = "acquire"
     /\ ret.obs.lease_state = "leased"
     /\ <<ret.obs.steps, ret.obs.retries>> # <<ret.steps, ret.retries>>
     /\ ret.obs.expires < ret.t
     /\ ~ret.io
     /\ ~ret.stale) => IsSuccess(ret.result)

\* the holder never released, its lease expired, another tuple acquired it
C7_Witness ==
    /\ ret.op = "acquire"
    /\ IsSuccess(ret.result)
    /\ ret.obs.lease_state = "leased"
    /\ <<ret.obs.steps, ret.obs.retries>> # <<ret.steps, ret.retries>>
    /\ ret.obs.expires < ret.t

(***************************************************************************)
(* Properties of the dispatch pipeline                                     *)
(***************************************************************************)
\* nothing is in flight: no record waits, no run is under way
Quiescent ==
    /\ pending = {}
    /\ retry_store = {}
    /\ \A w \in Workers : Free(w)

\* C8: once set_message_dispatched has recorded correlation_id-steps, every
\* later run for that (correlation_id, steps), whatever its retries, stops at
\* the dedupe step: no action runs, nothing is emitted, duplicate goes up by 1.
C8_DedupeStopsLaterRuns ==
    [][\A w \in Workers :
          (run[w].late /\ run[w].pc = "dedupe" /\ run'[w].pc \notin {"dedupe", "killed"}) =>
              /\ run'[w].pc = "idle"
              /\ metrics'.duplicate = metrics.duplicate + 1
              /\ executed' = executed
              /\ pending' = pending]_vars

\* C9: within one correlation_id the actions of step N+1 never run before
\* those of step N have finished, and, when no action fails and no backend is
\* out, every envelope emitted for step N+1 has been executed once nothing
\* is in flight any more, whenever it was delivered.
C9_SerialProgressNotLost ==
    /\ \A n \in Steps : (n > 0 /\ executed[n] > 0) => (n - 1) \in finished
    /\ (Quiescent /\ faults = 0) =>
          \A e \in seen : e[1] > 0 => executed[e[1]] > 0

\* C10: if a checkpoint has been stored for step N, the envelope of step N+1
\* has been enqueued on the primary or the secondary stream.
C10_CheckpointImpliesEnqueued ==
    \A n \in checkpoint :
        \E side \in {"primary", "secondary"} : <<n + 1, side>> \in sentOn

\* worker w has acquired the lease in its run
Acquired(w) == run[w].fence # RNone
\* worker w returns to the runtime in this step
Returns(w) == ~Free(w) /\ run'[w].pc = "idle"
\* the record on the side w acquired on is leased by w's tuple under w's fence
LeaseOf(w, primary, secondary) ==
    ClaimOwnedWithFence(IF run[w].lease_primary THEN primary ELSE secondary,
                        run[w].steps, run[w].retries, run[w].fence)

C12_BothCachesDown ==
    [][\A w \in Workers :
          (run[w].pc = "acquire" /\ faults' = faults + 2) =>
              /\ metrics' = [metrics EXCEPT !.cache = @ + 1]
              /\ run'[w] = IdleRun
              /\ executed' = executed
              /\ sentOn' = sentOn
              /\ pending' \subseteq pending \cup {EnvelopeOf(w)}
              /\ idem' = idem
              /\ rec' = rec /\ rec2' = rec2]_vars

\* a run has ended on two failed acquire_lease calls with nothing done
C12_Witness ==
    /\ NoRunUnderWay
    /\ metrics.cache = 1
    /\ faults = 2
    /\ pending = {KickoffEnvelope}
    /\ rec = AbsentRec /\ rec2 = AbsentRec

\* C13: when acquire_lease on the primary cache returns False, the run
\* increments duplicate and returns without trying the secondary, without
\* running an action and without emitting, checkpointing or scheduling a retry.
C13_ContentionIsDuplicate ==
    [][\A w \in Workers :
          (/\ run[w].pc = "acquire"
           /\ run'[w] # run[w]
           /\ faults' = faults
           /\ ~acquire_condition_dynamodb(rec, run[w].steps, run[w].retries, now)) =>
              /\ metrics' = [metrics EXCEPT !.duplicate = @ + 1]
              /\ run'[w] = IdleRun
              /\ rec' = rec /\ rec2' = rec2
              /\ executed' = executed
              /\ pending' = pending
              /\ sentOn' = sentOn
              /\ checkpoint' = checkpoint
              /\ retry_store' = retry_store]_vars

\* the envelope of step 1 has been refused the lease that a killed run of
\* step 0 still holds, and was counted as a duplicate without being run
C13_Witness ==
    /\ NoRunUnderWay
    /\ metrics.duplicate = 1
    /\ redelivered = 0
    /\ <<1, 0>> \in seen \ pending
    /\ idem[1] = Null
    /\ executed[1] = 0
    /\ ClaimOwned(rec, 0, 0)
    /\ rec2 = AbsentRec

\* C14: when the action of a step fails on every attempt, start_retries
\* writes exactly max_retries retry records (five with max_retries = 5),
\* their run_at strictly increasing; the failure after that writes no record
\* and increments fatal; no envelope carries retries above max_retries.
C14_RetryCap ==
    /\ Len(retry_log) <= max_retries
    /\ \A k \in 1..Len(retry_log) : retry_log[k].retries = k
    /\ \A k \in 1..(Len(retry_log) - 1) : retry_log[k].run_at < retry_log[k + 1].run_at
    /\ \A e \in pending \cup seen \cup retry_store : e[2] <= max_retries
    /\ executed[0] <= max_retries + 1
    /\ metrics.fatal = IF /\ executed[0] = max_retries + 1
                          /\ \A w \in Workers : run[w].pc \in {"release", "idle"}
                       THEN 1 ELSE 0
    /\ metrics.fatal = 1 => Len(retry_log) = max_retries

\* five retry records have been written and the sixth failure was fatal
C14_Witness ==
    /\ max_retries = DEFAULT_MAX_RETRIES
    /\ NoRunUnderWay
    /\ executed[0] = DEFAULT_MAX_RETRIES + 1
    /\ Len(retry_log) = DEFAULT_MAX_RETRIES
    /\ metrics.fatal = 1

\* C15: no failed step is lost: whenever a step fails with retries below
\* max_retries, its payload is recorded or re-enqueued on the primary or the
\* secondary retry backend by the time start_retries is over.
C15_FailedStepRecorded ==
    [][\A w \in Workers :
          (/\ run[w].pc = "start_retries"
           /\ run'[w].pc = "release"
           /\ run[w].retries < max_retries) =>
              <<run[w].steps, run[w].retries + 1>> \in retry_store']_vars

\* every envelope the system has produced so far
Envelopes == pending \cup seen \cup retry_store

\* C16: along the envelopes of one correlation_id, steps grows by exactly 1
\* on each emission and never decreases, and retries starts at 0 with every
\* new steps value and grows while steps stays: every envelope is the kickoff
\* envelope, or follows a delivered envelope of the step before with
\* retries 0, or follows a delivered envelope of its own step with one retry
\* less.
C16_EnvelopeOrder ==
    \A e \in Envelopes :
        \/ e = KickoffEnvelope
        \/ /\ e[1] > 0
           /\ e[2] = 0
           /\ \E r \in 0..max_retries : <<e[1] - 1, r>> \in seen
        \/ /\ e[2] > 0
           /\ <<e[1], e[2] - 1>> \in seen

\* step 0 was retried and then emitted the envelope of step 1, which was
\* retried in turn
C16_Witness ==
    /\ <<0, 1>> \in seen
    /\ <<1, 0>> \in seen
    /\ <<1, 1>> \in Envelopes
    /\ <<0, 2>> \notin Envelopes

\* worker w takes a step of a run in which an action raised
FailedStep(w) ==
    /\ run'[w] # run[w]
    /\ \/ run[w].pc = "interpret" /\ run'[w].pc = "start_retries"
       \/ run[w].pc \in {"start_retries", "release"} /\ run[w].raised

\* what holds of every such step, the state of the lease set aside: nothing
\* is checkpointed, emitted or recorded as dispatched, the run keeps its
\* retries, only the retry record carries retries + 1, and the run goes on
\* to release_lease
FailedStepEffects(w) ==
    /\ checkpoint' = checkpoint
    /\ sentOn' = sentOn
    /\ idem' = idem
    /\ pending' \subseteq pending \cup {EnvelopeOf(w)}
    /\ retry_store' \ retry_store \subseteq {<<run[w].steps, run[w].retries + 1>>}
    /\ ~Free(w)' => run'[w].retries = run[w].retries
    /\ run[w].pc = "start_retries" => run'[w].pc \in {"release", "killed"}
    /\ Returns(w) => run[w].pc = "release"

Calls(op) == ncalls' = ncalls + 1 /\ api'.last.op = op
\* the step adds one request to backend b and nothing else
WritesOnly(b) == writes' = [writes EXCEPT ![b] = @ + 1]

\* send_next_event_for_dispatch(primary=True) found no connection and
\* send_next_event_for_dispatch(primary=False) follows it and finds one
FailoverToSecondary ==
    /\ api.last.op = "send_next_event_for_dispatch"
    /\ api.last.primary /\ ~api.last.recovering /\ ~api.last.connected
    /\ Calls("send_next_event_for_dispatch")
    /\ ~api'.last.primary /\ ~api'.last.recovering /\ api'.last.connected

SkippableCalls ==
    {"start_retries", "stop_retries", "store_checkpoint", "set_message_dispatched",
     "get_message_dispatched", "increment_error_counters"}

\* C19: when the chosen side has no connection, each of start_retries,
\* stop_retries, store_checkpoint, set_message_dispatched,
\* get_message_dispatched and increment_error_counters returns a falsy value
\* (None or False) and writes to no backend.
C19_NoConnectionIsSkipped ==
    [][\A op \in SkippableCalls :
          (Calls(op) /\ ~api'.last.connected) =>
              /\ Falsy(api'.last.result)
              /\ writes' = writes]_vars

\* two calls found no connection and returned None with nothing written
C19_Witness ==
    /\ api.prev.op = "set_message_dispatched" /\ ~api.prev.connected
    /\ api.last.op = "start_retries" /\ ~api.last.connected
    /\ api.last.result = "None"
    /\ writes = [b \in Backends |-> 0]

\* the backend the flags select, as the contract words it
ClaimDispatchSource(primary, recovering) ==
    <<IF recovering THEN "retry" ELSE "stream", IF primary THEN "primary" ELSE "secondary">>
ClaimRetriesSource(primary, recovering) ==
    <<IF recovering THEN "stream" ELSE "retry", IF primary THEN "primary" ELSE "secondary">>
ClaimSource(c) ==
    IF c.op = "send_next_event_for_dispatch"
    THEN ClaimDispatchSource(c.primary, c.recovering)
    ELSE ClaimRetriesSource(c.primary, c.recovering)

\* C20 (as stated): the backend is a function of the two flags only:
\* send_next_event_for_dispatch writes to the stream source, or to the retry
\* source when recovering; start_retries writes to the retry source, or to
\* the stream source when recovering; primary picks the side; exactly one
\* backend is written per call.
C20_ExactlyOneSelected ==
    [][\A op \in {"send_next_event_for_dispatch", "start_retries"} :
          Calls(op) => WritesOnly(ClaimSource(api'.last))]_vars

\* C20 (amended): the same selection; exactly one backend is written per
\* call that finds a connection, and none by a call that finds none.
C20_SelectedByFlags ==
    [][\A op \in {"send_next_event_for_dispatch", "start_retries"} :
          Calls(op) =>
              /\ api'.last.target = ClaimSource(api'.last)
              /\ IF api'.last.connected
                 THEN WritesOnly(ClaimSource(api'.last))
                 ELSE writes' = writes]_vars

\* a recovering dispatch went to the secondary retry source and a recovering
\* start_retries to the primary stream source
C20_Witness ==
    /\ api.prev.op = "send_next_event_for_dispatch"
    /\ ~api.prev.primary /\ api.prev.recovering
    /\ api.prev.wrote = <<"retry", "secondary">>
    /\ api.last.op = "start_retries"
    /\ api.last.primary /\ api.last.recovering
    /\ api.last.wrote = <<"stream", "primary">>


(***************************************************************************)
(* Properties of the lease calls of the pipeline.                          *)
(***************************************************************************)
\* the acquire_lease call of worker w on the primary side handed back 0
PrimaryHandedBackZero(w) ==
    /\ run[w].pc = "acquired"
    /\ run[w].lease_primary
    /\ ret.result = RConnError

\* C21: acquire_lease and release_lease hand back 0 exactly when the backend
\* call failed on I/O, 0 is not the contention result False, and after 0 from
\* the primary side the pipeline goes on to call the secondary side without
\* counting a duplicate.
C21_ZeroIsNotContention ==
    /\ [](ret.op \in {"acquire", "release"} =>
            /\ ret.io <=> ret.result = RConnError
            /\ ret.io => ret.result # RFalse /\ ~IsSuccess(ret.result))
    /\ [][\A w \in Workers :
            PrimaryHandedBackZero(w) /\ run'[w] # run[w] /\ run'[w].pc # "killed" =>
                /\ run'[w].pc = "acquire"
                /\ ~run'[w].lease_primary
                /\ metrics' = metrics
                /\ pending' = pending]_vars

\* C21 witness: the primary side handed back 0 and the run holds a lease of
\* the secondary side.
C21_Witness ==
    \E w \in Workers :
        /\ run[w].pc = "interpret"
        /\ ~run[w].lease_primary
        /\ rec2.fence = run[w].fence.val
        /\ metrics.duplicate = 0


(***************************************************************************)
(* Properties of the client.                                               *)
(***************************************************************************)
\* the envelopes of the requests the last call of the client made, decoded
Kickoffs == [i \in DOMAIN requests[1].data |-> json_loads(requests[1].data[i])]
\* the last call of the client made one request, through one call of op
OneRequest(op) ==
    /\ Len(requests) = 1
    /\ requests[1].op = op
    /\ ncalls = started.ncalls + 1
    /\ api.last.op = op
    /\ api.last.target = <<"stream", "primary">>
\* envelope p is the envelope of a machine that has not run a step
IsKickoff(p) ==
    /\ DOMAIN p = {"version", "system_context", "user_context"}
    /\ DOMAIN p.system_context = {"started_at", "machine_name", "current_state",
                                  "current_event", "steps", "retries", "correlation_id"}
    /\ p.version = Str(DEFAULT_VERSION)
    /\ p.system_context.steps = Num(0)
    /\ p.system_context.retries = Num(0)
    /\ p.system_context.machine_name = Str(started.machine_name)
    /\ p.system_context.current_state = Str(started.current_state)
    /\ p.system_context.current_event = Str(started.current_event)
\* value id was drawn from uuid4 by the last call of the client
NewlyGenerated(id) == id.kind = "uuid" /\ id.val > started.uuids /\ id.val <= uuids

\* C22: start_state_machine with the default current_state and current_event
\* makes exactly one dispatch call, aimed at the primary stream source, with
\* one envelope whose partition key is the correlation id; the envelope has
\* version 0.1, steps = 0, retries = 0, current_state = current_event =
\* pseudo_init, the given machine name, the given correlation id or a newly
\* generated one when none was given, and the given initial context.
C22_KickoffEnvelope ==
    (/\ started.fn = "start_state_machine"
     /\ started.current_state = PSEUDO_INIT
     /\ started.current_event = PSEUDO_INIT) =>
        /\ OneRequest("send_next_event_for_dispatch")
        /\ Len(requests[1].data) = 1
        /\ Len(requests[1].keys) = 1
        /\ IsKickoff(Kickoffs[1])
        /\ Kickoffs[1].system_context.current_state = Str(PSEUDO_INIT)
        /\ Kickoffs[1].system_context.current_event = Str(PSEUDO_INIT)
        /\ Kickoffs[1].user_context = started.user_contexts[1]
        /\ requests[1].keys[1] = Kickoffs[1].system_context.correlation_id
        /\ IF bool(started.correlation_ids)
           THEN requests[1].keys[1] = started.correlation_ids
           ELSE NewlyGenerated(requests[1].keys[1])

\* C22 witness: a machine was started with defaults and without a correlation
\* id, after a machine that was started with one.
C22_Witness ==
    /\ started.fn = "start_state_machine"
    /\ started.current_state = PSEUDO_INIT
    /\ started.correlation_ids = None
    /\ started.ncalls = 1
    /\ api.last.connected
    /\ requests[1].keys[1] = uuid4_hex(1)


\* C23: start_state_machines makes one batched dispatch call with exactly one
\* envelope per user context, in the caller's order: the i-th envelope
\* carries the i-th user context and the i-th correlation id, and that id is
\* both in its system_context and its partition key.
C23_BatchInOrder ==
    started.fn = "start_state_machines" =>
        /\ OneRequest("send_next_events_for_dispatch")
        /\ Len(requests[1].data) = Len(started.user_contexts)
        /\ Len(requests[1].keys) = Len(started.user_contexts)
        /\ \A i \in DOMAIN started.user_contexts :
            /\ IsKickoff(Kickoffs[i])
            /\ Kickoffs[i].user_context = started.user_contexts[i]
            /\ Kickoffs[i].system_context.correlation_id = requests[1].keys[i]
            /\ bool(started.correlation_ids) =>
                    requests[1].keys[i] = started.correlation_ids.val[i]

\* C23 witness: two machines with different contexts and different
\* correlation ids were started by one call.
C23_Witness ==
    /\ started.fn = "start_state_machines"
    /\ Len(started.user_contexts) = 2
    /\ started.user_contexts[1] # started.user_contexts[2]
    /\ bool(started.correlation_ids)
    /\ requests[1].keys = <<Str(Guids[1]), Str(Guids[2])>>
    /\ api.last.connected

\* the caller of start_state_machines left the correlation ids to the system
IdsLeftToSystem ==
    /\ started.fn = "start_state_machines"
    /\ \/ started.correlation_ids = None
       \/ /\ started.correlation_ids.kind = "list"
          /\ \A i \in DOMAIN started.correlation_ids.val :
                started.correlation_ids.val[i] = None

\* C24: when start_state_machines is given correlation_ids = None or a list
\* of Nones, every started machine gets a correlation id that is not None,
\* and the ids of one call are pairwise distinct.
C24_IdsDefinedBySystem ==
    IdsLeftToSystem =>
        /\ \A i \in DOMAIN requests[1].keys :
            /\ requests[1].keys[i] # None
            /\ Kickoffs[i].system_context.correlation_id # None
        /\ \A i, j \in DOMAIN requests[1].keys :
            i # j => requests[1].keys[i] # requests[1].keys[j]


(***************************************************************************)
(* Properties of the chaos wrapper.                                        *)
(***************************************************************************)
\* rule i belongs to the connection's service and its draw was strictly
\* below its probability
DrawBelow(i) ==
    /\ chaos.rules[i].service = chaos.service_name
    /\ intercepted.draws[i] # Null
    /\ intercepted.draws[i] < chaos.rules[i].probability
\* the outcome of rule i was handed to the caller
ConfiguredOutcome(i) ==
    LET outcome == chaos.rules[i].outcome
    IN  /\ intercepted.result.value = outcome
        /\ intercepted.result.how = "raise" <=> outcome.kind = "exception"

\* C25 (as stated): when a rule of the connection's service fires, the call
\* raises the configured exception or returns the configured value and the
\* wrapped method is not invoked, for plain calls and calls through a
\* pipeline() scope alike.
C25_WrappedNotInvoked ==
    \A i \in DOMAIN intercepted.draws :
        (intercepted.scope \in Scopes /\ DrawBelow(i)) =>
            /\ \E j \in 1..i : DrawBelow(j) /\ ConfiguredOutcome(j)
            /\ intercepted.ran = 0

\* C25 (amended): when a rule of the connection's service fires, the call
\* raises the configured exception or returns the configured value, never
\* the wrapped method's result, for plain calls and calls through a
\* pipeline() scope alike; the wrapped method is invoked at most once, it is
\* not invoked when the draw that decides it is 0.9 and it is invoked, and
\* its result dropped, when that draw is 0.1.
C25_ConfiguredOutcomeReplacesResult ==
    \A i \in DOMAIN intercepted.draws :
        (intercepted.scope \in Scopes /\ DrawBelow(i)) =>
            /\ \E j \in 1..i : DrawBelow(j) /\ ConfiguredOutcome(j)
            /\ intercepted.result.value # WRAPPED_RESULT
            /\ intercepted.ran \in {0, 1}
            /\ intercepted.run_draw = 9 => intercepted.ran = 0
            /\ intercepted.run_draw = 1 => intercepted.ran = 1

\* C25 witness: a rule fired on a call through a pipeline() scope and the
\* wrapped method was not invoked.
C25_Witness ==
    /\ intercepted.scope = "pipeline"
    /\ intercepted.fired > 0
    /\ DrawBelow(intercepted.fired)
    /\ intercepted.result = [how |-> "return", value |-> Str("zap")]
    /\ intercepted.ran = 0

\* C26: when no rule fires, because the connection's service has no rule or
\* every draw is at or above the probability of its rule, the call invokes
\* the wrapped method exactly once and returns its result unchanged.
C26_NoChaosIsTransparent ==
    (/\ intercepted.scope \in Scopes
     /\ \A i \in DOMAIN intercepted.draws : ~DrawBelow(i)) =>
        /\ intercepted.ran = 1
        /\ intercepted.result = [how |-> "return", value |-> WRAPPED_RESULT]

\* C26 witness: the wrapped method ran after a rule of the connection's
\* service drew exactly its probability, next to a rule of probability 0.
C26_Witness ==
    /\ intercepted.scope \in Scopes
    /\ intercepted.ran = 1
    /\ intercepted.fired = 0
    /\ \E i \in DOMAIN chaos.rules :
        /\ chaos.rules[i].service = chaos.service_name
        /\ chaos.rules[i].probability = intercepted.draws[i]
    /\ \E i \in DOMAIN chaos.rules :
        /\ chaos.rules[i].service = chaos.service_name
        /\ chaos.rules[i].probability = 0


(***************************************************************************)
(* Properties of validate_config.                                          *)
(***************************************************************************)
\* source k is misconfigured: its primary is unset or of a service that is
\* not allowed
Misconfigured(k) == settings[k].primary = None \/ ~allowed(settings[k].primary)
\* a fatal record about source k is in the log
FatalLogged(k) ==
    \E i \in DOMAIN validation.logged[k] : validation.logged[k][i].level = "fatal"

Class(result) ==
    IF result = RConnError THEN "unavailable"
    ELSE IF IsSuccess(result) THEN "granted" ELSE "refused"

\* C28 (as stated): on the same sequence of acquire_lease and release_lease
\* calls and clock advances the cache dialect and the document-store dialect
\* return the same outcome class for every call.
C28_SameOutcomeClass ==
    side_by_side.op # "none" => Class(side_by_side.doc) = Class(side_by_side.cache)

\* C28 (amended): the two dialects return the same outcome class for every
\* call of a sequence in which every release_lease by the holder presents
\* the fence of the document store and comes before the lease expires, and
\* no acquire_lease by another (steps, retries) comes at the instant a lease
\* expires.
C28_SameOutcomeClassOnCommonGround ==
    (side_by_side.op # "none" /\ ~side_by_side.strayed) =>
        Class(side_by_side.doc) = Class(side_by_side.cache)

\* C28 witness: after an acquire, an expiry and a takeover by another
\* (steps, retries), a release with the right fence is granted in both
\* dialects.
C28_Witness ==
    /\ ~side_by_side.strayed
    /\ side_by_side.op = "release"
    /\ now > T0
    /\ side_by_side.doc = RTrue
    /\ side_by_side.cache = RTrue
    /\ side_by_side.f = RFence(2)


(***************************************************************************)
(* Properties of the idempotency record.                                   *)
(***************************************************************************)
\* worker w makes its set_message_dispatched call in this step
WritesDispatched(w) ==
    /\ run[w].pc = "set_dispatched"
    /\ run'[w].pc \notin {"set_dispatched", "killed"}

\* C29: set_message_dispatched writes the key correlation_id-steps only when
\* it is absent: on an existing record the write fails, the stored value is
\* kept and the writer does not go on as the winner of the step, so of two
\* concurrent writers of one key exactly one succeeds.
C29_WriteIfAbsent ==
    [][\A w \in Workers :
        (WritesDispatched(w) /\ idem[run[w].steps] # Null) =>
            /\ idem' = idem
            /\ run'[w].pc \notin {"checkpoint", "stop_retries"}]_vars


(***************************************************************************)
(* Properties of the ARN parser.                                           *)
(***************************************************************************)
\* number of colons of a str
Colons(chars) == Cardinality({i \in DOMAIN chars : chars[i] = ":"})
\* the fields of the parsed Arn that are not None, in order
PresentFields ==
    LET present == SelectSeq(ArnFields, LAMBDA k : parsed[k] # None)
    IN  [i \in DOMAIN present |-> parsed[present[i]].val]
\* the first n fields are present and the others are None
FirstFieldsPresent(n) ==
    \A i \in DOMAIN ArnFields : (parsed[ArnFields[i]] # None) <=> (i <= n)

\* C30: get_arn_from_arn_string splits its input at the first five colons
\* into arn, partition, service, region_name, account_id and resource, so
\* the colons after the fifth stay in resource; of an input with fewer
\* fields, the empty str or None the missing fields are None and nothing is
\* raised; the six fields of a parsed six-field ARN joined with colons are
\* the input.
C30_SplitAtFirstFiveColons ==
    parsed.returned =>
        IF arn_string = None
        THEN FirstFieldsPresent(0)
        ELSE IF arn_string.val = <<>>
        THEN /\ FirstFieldsPresent(0) \/ FirstFieldsPresent(1)
             /\ parsed.resource = None
             /\ join(PresentFields) = arn_string.val
        ELSE /\ FirstFieldsPresent(Min(Colons(arn_string.val), ARN_SPLITS) + 1)
             /\ join(PresentFields) = arn_string.val
             /\ \A i \in 1..Len(PresentFields) :
                    i <= ARN_SPLITS => Colons(PresentFields[i]) = 0
             /\ Colons(arn_string.val) >= ARN_SPLITS =>
                    Colons(parsed.resource.val) = Colons(arn_string.val) - ARN_SPLITS

\* C30 witness: an ARN with six colons was parsed and its resource holds
\* the sixth.
C30_Witness ==
    /\ parsed.returned
    /\ arn_string # None
    /\ Colons(arn_string.val) = ARN_SPLITS + 1
    /\ parsed.arn = Str(<<"a">>)
    /\ parsed.resource = Str(<<":">>)

(***************************************************************************)
(* Further properties of the lease                                         *)
(***************************************************************************)
\* the record as a successful release leaves it: open with the owner and the
\* expiry cleared in the document store, no value under the key in a cache
Released(item) ==
    IF dialect = "dynamodb"
    THEN /\ item.lease_state = "open"
         /\ item.steps = Null /\ item.retries = Null /\ item.expires = Null
    ELSE item.lease_state = "absent"

\* C31: after a release_lease that returns true the lease is available to
\* everyone: the document store holds lease_state = open with steps, retries
\* and expires cleared and the fence unchanged, the cache key is removed
\* (memcached: None with a 1-second TTL, Redis: deleted), and the next
\* acquire_lease by any (steps, retries) succeeds (it can only miss through
\* a failing backend call or a change of the key between its read and its
\* conditional write).
C31_ReleasedLeaseIsAvailable ==
    [][/\ (ret = NoRet /\ ret'.op = "release" /\ ret'.result = RTrue) =>
            /\ Released(rec')
            /\ rec'.fence = IF dialect = "dynamodb" THEN rec.fence ELSE 0
            /\ rec'.ttl = IF dialect = "memcache" THEN now + RELEASE_TTL ELSE Null
            /\ \A o \in Owners :
                  IF dialect = "dynamodb"
                  THEN acquire_condition_dynamodb(rec', o[1], o[2], now)
                  ELSE acquire_available_cache(Value(rec'), o[1], o[2], now)
       /\ (/\ ret = NoRet
           /\ ret'.op = "acquire"
           /\ Released(ret'.obs)
           /\ ~ret'.io
           /\ ~ret'.stale) => IsSuccess(ret'.result)]_vars

\* C31 witness: the lease was acquired once (fence 1) and released, and
\* the next acquire_lease, made for the (steps, retries) of the second
\* invocation, which differ from the first's, was granted fence 2
C31_Witness ==
    /\ dialect = "dynamodb"
    /\ ret.op = "acquire"
    /\ ret.result = RFence(2)
    /\ Released(ret.obs)
    /\ ret.obs.fence = 1
    /\ ret.inv = 2
    /\ envelope[2] # envelope[1]

(***************************************************************************)
(* Further properties of the dispatch pipeline                             *)
(***************************************************************************)
\* the envelope of step n has been put on a stream or on the retry source
Emitted(n) ==
    \/ \E side \in {"primary", "secondary"} : <<n, side>> \in sentOn
    \/ \E e \in retry_store \cup pending \cup seen : e[1] = n

\* C32: the idempotency record of (correlation_id, steps) is written only
\* after the next event of that step has been emitted: in no reachable state
\* is the record present while the next event of the step is on no backend.
C32_RecordOnlyAfterEmission ==
    \A n \in Steps : (idem[n] # Null /\ n < LastStep) => Emitted(n + 1)

\* the record is leased by another tuple than (s, r) and has not expired at t
HeldByOther(item, s, r, t) ==
    /\ item.lease_state = "leased"
    /\ <<item.steps, item.retries>> # <<s, r>>
    /\ item.expires >= t

\* C33: an acquire_lease that finds the lease held by a different
\* (steps, retries) and not expired returns false and writes nothing: the
\* stored owner, expires and fence are after the call what they were before.
C33_RefusedAcquireWritesNothing ==
    [][(/\ ret = NoRet
        /\ ret'.op = "acquire"
        /\ ~ret'.io
        /\ HeldByOther(ret'.obs, ret'.steps, ret'.retries, ret'.t)) =>
            /\ ret'.result = RFalse
            /\ rec' = rec]_vars

\* C33 witness: a cache acquire fell through on a lease held by another
\* tuple and the stored value is still the one it read
C33_Witness ==
    /\ dialect \in {"memcache", "redis"}
    /\ ret.op = "acquire"
    /\ ret.result = RFalse
    /\ HeldByOther(ret.obs, ret.steps, ret.retries, ret.t)
    /\ Value(rec) = ret.obs

\* invocation i completes the conditional write of its cache call in this step
CacheWriteBy(i) ==
    /\ ret = NoRet
    /\ call[i].pc \in {"acq_cas", "rel_cas"}
    /\ ret'.inv = i

CLAIMED_LEASE_TIMEOUT == 300

\* C35: a successful acquire_lease at time now stores expires = now + 300
\* (1299 at now = 999), and in the cache dialects the TTL of the key is the
\* same 300 seconds.
C35_ExpiresAfter300Seconds ==
    (ret.op = "acquire" /\ IsSuccess(ret.result)) =>
        /\ rec.expires = ret.t + CLAIMED_LEASE_TIMEOUT
        /\ dialect \in {"memcache", "redis"} => rec.ttl = now + CLAIMED_LEASE_TIMEOUT

(***************************************************************************)
(* Properties of the retry table                                           *)
(***************************************************************************)
\* the items stored for a context
ItemsOf(table, correlation_id, steps) ==
    {i \in table : i.correlation_id_steps = correlation_id_steps(correlation_id, steps)}

\* C36: in a document-store retry backend the retry record is keyed by
\* (partition of the correlation id, correlation_id-steps): start_retries
\* and stop_retries of one context address the same key, so the table holds
\* at most one retry record per (correlation_id, steps), a repeated
\* start_retries replaces it, and after a stop_retries that reaches the
\* table the sweeper finds no record of the step.
C36_OneRetryRecordPerStep ==
    /\ [](\A c \in CorrelationIds, n \in TableSteps :
            /\ Cardinality(ItemsOf(retry_table, c, n)) <= 1
            /\ \A i \in ItemsOf(retry_table, c, n) : ItemKey(i) = ContextKey(c, n))
    /\ [](retry_call.op # "none" =>
            /\ retry_call.key = ContextKey(retry_call.correlation_id, retry_call.steps)
            /\ (retry_call.op = "start_retries" /\ retry_call.connected) =>
                  ItemsOf(retry_table, retry_call.correlation_id, retry_call.steps) =
                      {[partition |-> retry_call.key[1],
                        correlation_id_steps |-> retry_call.key[2],
                        payload |-> RETRY_PAYLOAD,
                        run_at |-> retry_call.run_at]}
            /\ (retry_call.op = "stop_retries" /\ retry_call.connected) =>
                  \A t \in SweepTimes : \A i \in retriable_entities(retry_table, t) :
                      i.correlation_id_steps # retry_call.key[2])
    /\ [][\A i \in retry_table' \ retry_table, j \in retry_table \ retry_table' :
            ItemKey(i) = ItemKey(j)]_vars

\* C36 witness: a start_retries put a second record for the step in the
\* place of the first, under the key stop_retries addresses
C36_Witness ==
    /\ retry_call.op = "start_retries"
    /\ retry_call.connected
    /\ retry_call.correlation_id = <<"b", "-", "1">>
    /\ retry_call.steps = 1
    /\ retry_call.run_at = 2
    /\ \E i \in retry_call.had : i.run_at = 1
    /\ Cardinality(retry_table) = 2
    /\ retry_call.key = ContextKey(<<"b", "-", "1">>, 1)

(***************************************************************************)
(* Properties of the interpreter step                                      *)
(***************************************************************************)
\* position of an action in the order of the step
OrderOf(name) == CHOOSE k \in DOMAIN ActionOrder : ActionOrder[k] = name

\* C37: within one interpreter step the actions fire in the order
\* exit_action, transition action, entry_action, do_action, each at most
\* once, and an event handed to send_event by any of them is emitted only
\* after do_action has finished.
C37_ActionsInOrderEventsDeferred ==
    /\ [](\A i, j \in DOMAIN interp.fired :
             i < j => OrderOf(interp.fired[i]) < OrderOf(interp.fired[j]))
    /\ [](interp.emitted # <<>> =>
             /\ interp.pc = "done"
             /\ "do_action" \in interp.defined =>
                    interp.fired[Len(interp.fired)] = "do_action")
    /\ [][interp'.emitted # interp.emitted =>
             /\ interp.pc = "select"
             /\ interp'.fired = interp.fired]_vars

\* C37 witness: the four actions fired, exit_action handed an event to
\* send_event, and the event was emitted at the end of the step
C37_Witness ==
    /\ interp.pc = "done"
    /\ interp.fired = ActionOrder
    /\ interp.deferred # <<>>
    /\ interp.deferred[1] = SentBy("exit_action")
    /\ interp.emitted[1] = SentBy("exit_action")
    /\ Len(interp.emitted) = Len(interp.deferred) + 1

(***************************************************************************)
(* Properties of the queue URL cache                                       *)
(***************************************************************************)
\* a lookup of the URL of arn is made in this step
LooksUp(arn) == sqs_call'.n = sqs_call.n + 1 /\ sqs_call'.arn = arn
\* the cache holds a URL for arn
HasUrl(arn) == sqs_cache[arn] \notin {Absent, None}

=============================================================================
